---- MODULE Spec2Model ----
(***************************************************************************)
(* bun-server: the request dispatcher built by createServer (src/index.ts, *)
(* second definition, lines 510-965).  The model covers the route table,   *)
(* the matcher, the pre-request guard pipeline, the WebSocket upgrade      *)
(* branch, the body decoder step, handler invocation, the catch blocks of  *)
(* fetch, the ResponseHandler that res() hands to a route handler, two     *)
(* invocations of fetch taking turns at their awaits, and the message      *)
(* handler and send wrapper of a WebSocket connection.                     *)
(*                                                                         *)
(* A JavaScript string is a sequence of one-character strings, so that     *)
(* split, startsWith, endsWith and replace are computed as the code        *)
(* computes them.                                                          *)
(***************************************************************************)
EXTENDS Integers, Sequences, FiniteSets, TLC

VARIABLES
    registeredMethods,    \* method -> ordered list of [key, handler] (Object.keys order)
    _errorHandler,        \* 0 = null, otherwise the id of the registered error handler
    _preRequestHandlers,  \* number of guards pushed; guard k is the k-th pushed
    PUBLIC_DIRECTORIES,   \* list of the public directories pushed
    webSocket,            \* the webSocket option of createServer
    globalHeaders,        \* the globalHeaders option: ordered list of [key, value]
    nextHandler,          \* id the next registered route handler gets (handlers are
                          \* numbered in registration order)
    r,                    \* the fetch invocation that is running, or was last
    parked,               \* the other fetch invocation, waiting at an await
    heap,                 \* address -> id of the invocation that last wrote to the
                          \* object at the address (0 = as it was made)
    socket                \* the WebSocket connection: frames sent, hook calls made

vars == <<registeredMethods, _errorHandler, _preRequestHandlers,
          PUBLIC_DIRECTORIES, webSocket, globalHeaders, nextHandler, r,
          parked, heap, socket>>

----------------------------------------------------------------------------
(* Bounds *)

MaxRoutes == 3
MaxGuards == 2
MaxDirs == 1
MaxCalls == 3
MaxSends == 2
MaxMessages == 2

----------------------------------------------------------------------------
(* String primitives *)

Slash == "/"
Undefined == <<"undefined">>
NoKey == <<"null">>

startsWith(s, p) ==
    /\ Len(p) <= Len(s)
    /\ SubSeq(s, 1, Len(p)) = p

endsWith(s, p) ==
    /\ Len(p) <= Len(s)
    /\ SubSeq(s, Len(s) - Len(p) + 1, Len(s)) = p

indexOf(s, p) ==
    LET hits == {i \in 1..(Len(s) - Len(p) + 1) : SubSeq(s, i, i + Len(p) - 1) = p}
    IN  IF hits = {} THEN 0 ELSE CHOOSE i \in hits : \A j \in hits : i <= j

\* String.prototype.replace with a string pattern: the first occurrence only
replace(s, p, q) ==
    LET i == indexOf(s, p)
    IN  IF i = 0 THEN s
        ELSE SubSeq(s, 1, i - 1) \o q \o SubSeq(s, i + Len(p), Len(s))

RECURSIVE split(_, _)
split(s, c) ==
    LET hits == {i \in 1..Len(s) : s[i] = c}
    IN  IF hits = {} THEN <<s>>
        ELSE LET i == CHOOSE i \in hits : \A j \in hits : i <= j
             IN  <<SubSeq(s, 1, i - 1)>> \o split(SubSeq(s, i + 1, Len(s)), c)

truthy(p) == p # <<>>

\* s.split('/').filter(p => p)
segments(s) == SelectSeq(split(s, Slash), truthy)

----------------------------------------------------------------------------
(* Methods *)

ValidMethods ==
    {"GET", "POST", "PUT", "PATCH", "DELETE", "OPTIONS", "HEAD", "CONNECT", "TRACE"}

validateMethod(method) == method \in ValidMethods

BodyMethods == {"POST", "PUT", "PATCH"}

----------------------------------------------------------------------------
(* Route table *)

keysOf(table) == [i \in 1..Len(table) |-> table[i].key]

\* registeredMethods[method][key]; 0 stands for undefined
lookup(table, key) ==
    LET hits == {i \in 1..Len(table) : table[i].key = key}
    IN  IF hits = {} THEN 0 ELSE table[CHOOSE i \in hits : TRUE].handler

\* variant: a key that is registered keeps the handler it has
assign_keepsFirst(table, key, handler) ==
    IF lookup(table, key) # 0
    THEN table
    ELSE Append(table, [key |-> key, handler |-> handler])

\* registeredMethods[method][path] = handler : an existing key keeps its place
assign(table, key, handler) ==
    IF lookup(table, key) # 0
    THEN [i \in 1..Len(table) |->
            IF table[i].key = key THEN [key |-> key, handler |-> handler] ELSE table[i]]
    ELSE Append(table, [key |-> key, handler |-> handler])

firstIn(keys, hits) ==
    IF hits = {} THEN NoKey ELSE keys[CHOOSE i \in hits : \A j \in hits : i <= j]

isParamKey(k) ==
    \E i \in 1..Len(split(k, Slash)) : startsWith(split(k, Slash)[i], <<":">>)

paramMatches(key, parts) ==
    LET keyParts == segments(key)
    IN  /\ Len(keyParts) = Len(parts)
        /\ \A idx \in 1..Len(keyParts) :
              startsWith(keyParts[idx], <<":">>) \/ keyParts[idx] = parts[idx]

isWildcardKey(k) == endsWith(k, <<"/", "*">>)

\* variant: the prefix must end at a segment boundary of the path
wildcardMatches_segmentBoundary(wildcardKey, path) ==
    \/ path = replace(wildcardKey, <<"/", "*">>, <<>>)
    \/ startsWith(path, replace(wildcardKey, <<"/", "*">>, <<>>) \o <<"/">>)

wildcardMatches(wildcardKey, path) ==
    startsWith(path, replace(wildcardKey, <<"/", "*">>, <<>>))

\* variant: parameterized templates are tried before the exact key
getMatchingPathKey_paramFirst(method, path) ==
    IF ~validateMethod(method) THEN NoKey
    ELSE LET table == registeredMethods[method]
             keys  == keysOf(table)
             parts == segments(path)
             param == firstIn(keys, {i \in 1..Len(keys) :
                          isParamKey(keys[i]) /\ paramMatches(keys[i], parts)})
             wild  == firstIn(keys, {i \in 1..Len(keys) :
                          isWildcardKey(keys[i]) /\ wildcardMatches(keys[i], path)})
         IN  IF param # NoKey THEN param
             ELSE IF lookup(table, path) # 0 THEN path
             ELSE wild

\* variant: wildcard templates are tried before parameterized ones
getMatchingPathKey_wildcardFirst(method, path) ==
    IF ~validateMethod(method) THEN NoKey
    ELSE LET table == registeredMethods[method]
             keys  == keysOf(table)
             parts == segments(path)
             param == firstIn(keys, {i \in 1..Len(keys) :
                          isParamKey(keys[i]) /\ paramMatches(keys[i], parts)})
             wild  == firstIn(keys, {i \in 1..Len(keys) :
                          isWildcardKey(keys[i]) /\ wildcardMatches(keys[i], path)})
         IN  IF lookup(table, path) # 0 THEN path
             ELSE IF wild # NoKey THEN wild
             ELSE param

getMatchingPathKey(method, path) ==
    IF ~validateMethod(method) THEN NoKey
    ELSE LET table == registeredMethods[method]
             keys  == keysOf(table)
             parts == segments(path)
             param == firstIn(keys, {i \in 1..Len(keys) :
                          isParamKey(keys[i]) /\ paramMatches(keys[i], parts)})
             wild  == firstIn(keys, {i \in 1..Len(keys) :
                          isWildcardKey(keys[i]) /\ wildcardMatches(keys[i], path)})
         IN  IF lookup(table, path) # 0 THEN path
             ELSE IF param # NoKey THEN param
             ELSE wild

EmptyMap == [x \in {} |-> Undefined]

put(acc, k, v) == [x \in (DOMAIN acc) \cup {k} |-> IF x = k THEN v ELSE acc[x]]

paramName(part) == replace(replace(part, <<"/">>, <<>>), <<":">>, <<>>)

RECURSIVE paramsReduce(_, _, _, _)
paramsReduce(keyParts, parts, idx, acc) ==
    IF idx > Len(keyParts) THEN acc
    ELSE paramsReduce(keyParts, parts, idx + 1,
            IF startsWith(keyParts[idx], <<":">>)
            THEN put(acc, paramName(keyParts[idx]),
                     IF idx <= Len(parts) THEN parts[idx] ELSE Undefined)
            ELSE acc)

\* variant: the request path is split without dropping its empty segments
getParamsFromPath_rawSplit(pathKey, path) ==
    paramsReduce(segments(pathKey), split(path, Slash), 1, EmptyMap)

getParamsFromPath(pathKey, path) ==
    paramsReduce(segments(pathKey), segments(path), 1, EmptyMap)

----------------------------------------------------------------------------
(* JavaScript values, headers and the ResponseHandler *)

\* a JavaScript value: its type (typeof, with null apart from the objects) and
\* its content (the characters of a string, the digits of a number, the list
\* of [key, value] entries of an object)
Str(v) == [type |-> "string", v |-> v]
Num(v) == [type |-> "number", v |-> v]
Obj(key, value) == [type |-> "object", v |-> <<[key |-> key, value |-> value]>>]
Null == [type |-> "null", v |-> <<>>]
NaN == Num(<<"N", "a", "N">>)
undefined == [type |-> "undefined", v |-> <<>>]

Bool(v) == [type |-> "boolean", v |-> IF v THEN <<"t", "r", "u", "e">> ELSE <<"f", "a", "l", "s", "e">>]

\* a Buffer: a view of byteLength bytes, from byteOffset on, of the
\* ArrayBuffer data.buffer (v); a byte is written as one digit
Buffer(buffer, byteOffset, byteLength) ==
    [type |-> "Buffer", v |-> buffer, byteOffset |-> byteOffset, byteLength |-> byteLength]

\* data.buffer.slice(data.byteOffset, data.byteOffset + data.byteLength): the
\* bytes of the view
bytesOf(data) == SubSeq(data.v, data.byteOffset + 1, data.byteOffset + data.byteLength)

\* typeof x
typeof(x) == IF x.type \in {"null", "date", "Buffer"} THEN "object" ELSE x.type

\* list.join(",") on a list of one-character texts
RECURSIVE join(_)
join(list) ==
    IF Len(list) <= 1 THEN list
    ELSE <<list[1], ",">> \o join(Tail(list))

\* JSON.stringify, which Response.json applies to its argument; a Buffer has
\* a toJSON method that gives {type: 'Buffer', data: [...bytes]}
RECURSIVE JSONstringify(_)
JSONstringify(x) ==
    CASE x.type = "string" -> <<"\"">> \o x.v \o <<"\"">>
      [] x.type = "number" -> IF x = NaN THEN <<"n", "u", "l", "l">> ELSE x.v
      [] x.type = "boolean" -> x.v
      [] x = Null -> <<"n", "u", "l", "l">>
      [] x.type = "Buffer" ->
           <<"{", "\"", "t", "y", "p", "e", "\"", ":", "\"", "B", "u", "f", "f", "e", "r", "\"", ",", "\"", "d", "a", "t", "a", "\"", ":", "[">>
             \o join(bytesOf(x)) \o <<"]", "}">>
      [] OTHER -> <<"{", "\"">> \o x.v[1].key \o <<"\"", ":">>
                    \o JSONstringify(x.v[1].value) \o <<"}">>

Digits == {"0", "1", "2", "3", "4", "5", "6", "7", "8", "9"}

\* whether JSON.parse takes the text: null, true, false, a number, a string
\* or an object of one property (the JSON texts of the model)
RECURSIVE validJSON(_)
validJSON(text) ==
    \/ text \in {<<"n", "u", "l", "l">>, <<"t", "r", "u", "e">>, <<"f", "a", "l", "s", "e">>}
    \/ /\ text # <<>>
       /\ \A i \in 1..Len(text) : text[i] \in Digits
       /\ Len(text) > 1 => text[1] # "0"
    \/ /\ Len(text) >= 2
       /\ text[1] = "\"" /\ text[Len(text)] = "\""
       /\ \A i \in 2..(Len(text) - 1) : text[i] # "\""
    \/ /\ Len(text) >= 6
       /\ text[1] = "{" /\ text[2] = "\"" /\ text[Len(text)] = "}"
       /\ indexOf(text, <<":">>) >= 4
       /\ text[indexOf(text, <<":">>) - 1] = "\""
       /\ validJSON(SubSeq(text, indexOf(text, <<":">>) + 1, Len(text) - 1))

\* JSON.parse on a text it takes
RECURSIVE JSONparse(_)
JSONparse(text) ==
    CASE text = <<"n", "u", "l", "l">> -> Null
      [] text = <<"t", "r", "u", "e">> -> Bool(TRUE)
      [] text = <<"f", "a", "l", "s", "e">> -> Bool(FALSE)
      [] text[1] = "\"" -> Str(SubSeq(text, 2, Len(text) - 1))
      [] text[1] = "{" ->
           LET colon == indexOf(text, <<":">>)
           IN  Obj(SubSeq(text, 3, colon - 2),
                   JSONparse(SubSeq(text, colon + 1, Len(text) - 1)))
      [] OTHER -> Num(text)

\* {}
EmptyObject == [type |-> "object", v |-> <<>>]

\* contentType.includes('application/json'), on the content types of the model
isJSONType(contentType) ==
    contentType \in {"application/json", "application/json; charset=utf-8"}

\* variant: every body is taken as raw text
parsedBody_textOnly(headers, raw) ==
    Obj(<<"t", "e", "x", "t">>, Str(raw))

\* parsedBody: request.json() under a JSON content type, {text: await
\* request.text()} under the other content types of the model
parsedBody(headers, raw) ==
    IF isJSONType(headers.contentType)
    THEN JSONparse(raw)
    ELSE Obj(<<"t", "e", "x", "t">>, Str(raw))

encodeChar(c) ==
    CASE c = " " -> <<"%", "2", "0">>
      [] c = ";" -> <<"%", "3", "B">>
      [] c = "=" -> <<"%", "3", "D">>
      [] OTHER -> <<c>>

RECURSIVE encodeURIComponent(_)
encodeURIComponent(s) ==
    IF s = <<>> THEN <<>> ELSE encodeChar(Head(s)) \o encodeURIComponent(Tail(s))

HexDigits == Digits \cup {"A", "B", "C", "D", "E", "F", "a", "b", "c", "d", "e", "f"}

\* whether decodeURIComponent throws URIError: a "%" that two hexadecimal
\* digits do not follow
malformedURI(s) ==
    \E i \in 1..Len(s) :
        /\ s[i] = "%"
        /\ \/ i + 2 > Len(s)
           \/ s[i + 1] \notin HexDigits
           \/ s[i + 2] \notin HexDigits

\* the character an escape stands for (the escapes of the model)
decodeChar(h) ==
    CASE h = <<"2", "0">> -> " "
      [] h = <<"3", "B">> -> ";"
      [] h = <<"3", "D">> -> "="
      [] OTHER -> "?"

\* decodeURIComponent on a text it takes
RECURSIVE decodeURIComponent(_)
decodeURIComponent(s) ==
    IF s = <<>> THEN <<>>
    ELSE IF s[1] = "%"
    THEN <<decodeChar(SubSeq(s, 2, 3))>> \o decodeURIComponent(SubSeq(s, 4, Len(s)))
    ELSE <<s[1]>> \o decodeURIComponent(Tail(s))

\* String.prototype.trim, for blanks
RECURSIVE trim(_)
trim(s) ==
    IF s # <<>> /\ s[1] = " " THEN trim(Tail(s))
    ELSE IF s # <<>> /\ s[Len(s)] = " " THEN trim(SubSeq(s, 1, Len(s) - 1))
    ELSE s

\* const [key, value] = cookie.split('='), with value || ''
cookieKey(cookie) == split(cookie, "=")[1]
cookieValue(cookie) ==
    IF Len(split(cookie, "=")) >= 2 THEN split(cookie, "=")[2] ELSE <<>>

\* the pairs of the Cookie header: cookieHeader.split(';').map(v => v.trim())
cookiePairs(cookieHeader) ==
    [i \in 1..Len(split(cookieHeader, ";")) |-> trim(split(cookieHeader, ";")[i])]

\* whether the reduce over the pairs throws: a pair with a key whose value
\* decodeURIComponent does not take
cookiesThrow(cookieHeader) ==
    \E i \in 1..Len(cookiePairs(cookieHeader)) :
        /\ cookieKey(cookiePairs(cookieHeader)[i]) # <<>>
        /\ malformedURI(cookieValue(cookiePairs(cookieHeader)[i]))

\* the reduce over the pairs, from pair i on
RECURSIVE cookiesReduce(_, _, _)
cookiesReduce(pairs, i, acc) ==
    IF i > Len(pairs) THEN acc
    ELSE IF cookieKey(pairs[i]) = <<>> THEN cookiesReduce(pairs, i + 1, acc)
    ELSE cookiesReduce(pairs, i + 1,
                       put(acc, cookieKey(pairs[i]), decodeURIComponent(cookieValue(pairs[i]))))

\* url.pathname and the text after the "?" of the request URL (the URLs of
\* the model are a path and, at most, a query string)
pathname(url) == split(url, "?")[1]
search(url) ==
    IF indexOf(url, <<"?">>) = 0 THEN <<>>
    ELSE SubSeq(url, indexOf(url, <<"?">>) + 1, Len(url))

\* the decoding URLSearchParams applies to a name or a value: "+" is a blank,
\* an escape its character, any other "%" stays
RECURSIVE formDecode(_)
formDecode(s) ==
    IF s = <<>> THEN <<>>
    ELSE IF s[1] = "+" THEN <<" ">> \o formDecode(Tail(s))
    ELSE IF s[1] = "%" /\ Len(s) >= 3 /\ ~malformedURI(SubSeq(s, 1, 3))
    THEN <<decodeChar(SubSeq(s, 2, 3))>> \o formDecode(SubSeq(s, 4, Len(s)))
    ELSE <<s[1]>> \o formDecode(Tail(s))

\* name and value of one pair of the query string: the text before and
\* after its first "="
searchKey(pair) ==
    formDecode(IF indexOf(pair, <<"=">>) = 0 THEN pair
               ELSE SubSeq(pair, 1, indexOf(pair, <<"=">>) - 1))
searchValue(pair) ==
    formDecode(IF indexOf(pair, <<"=">>) = 0 THEN <<>>
               ELSE SubSeq(pair, indexOf(pair, <<"=">>) + 1, Len(pair)))

\* variant: the first value of a name is kept
RECURSIVE searchParamsForEach_firstWins(_, _, _)
searchParamsForEach_firstWins(pairs, i, query) ==
    IF i > Len(pairs) THEN query
    ELSE IF searchKey(pairs[i]) \in DOMAIN query
    THEN searchParamsForEach_firstWins(pairs, i + 1, query)
    ELSE searchParamsForEach_firstWins(pairs, i + 1,
                                       put(query, searchKey(pairs[i]), searchValue(pairs[i])))

\* searchParams.forEach((value, key) => { query[key] = value }), from pair i on
RECURSIVE searchParamsForEach(_, _, _)
searchParamsForEach(pairs, i, query) ==
    IF i > Len(pairs) THEN query
    ELSE searchParamsForEach(pairs, i + 1,
                             put(query, searchKey(pairs[i]), searchValue(pairs[i])))

\* the query object of a request: the pairs of url.searchParams (the parts
\* between "&" that are not empty), each name with the value set last
searchParams(text) ==
    searchParamsForEach(SelectSeq(split(text, "&"), truthy), 1, EmptyMap)

\* a Headers object compares header names without regard to case
toLowerCase(name) ==
    CASE name = "Content-Type" -> "content-type"
      [] name = "Location" -> "location"
      [] name = "X-A" -> "x-a"
      [] name = "X-G" -> "x-g"
      [] OTHER -> name

\* response.headers.set(name, value)
headersSet(headers, name, value) == put(headers, toLowerCase(name), value)

\* Object.keys(record).forEach(header => response.headers.set(header, record[header]))
RECURSIVE headersSetAll(_, _, _)
headersSetAll(headers, record, i) ==
    IF i > Len(record) THEN headers
    ELSE headersSetAll(headersSet(headers, record[i].key, record[i].value), record, i + 1)

\* record[key] = value on a plain object: an existing key keeps its place
setKey(record, key, value) ==
    IF \E i \in 1..Len(record) : record[i].key = key
    THEN [i \in 1..Len(record) |->
            IF record[i].key = key THEN [key |-> key, value |-> value] ELSE record[i]]
    ELSE Append(record, [key |-> key, value |-> value])

NoBody == <<"null">>

\* a Response: status, body text (NoBody for a null body) and headers
Response(status, body, headers) == [status |-> status, body |-> body, headers |-> headers]

\* response.headers.getSetCookie()
getSetCookie(response) ==
    IF "set-cookie" \in DOMAIN response.headers
    THEN <<response.headers["set-cookie"]>>
    ELSE <<>>

\* the value of a variable or property that was never given one
\* a Date, by the text its toUTCString() gives
Date(v) == [type |-> "date", v |-> v]

\* the conversion of a value to a boolean that if (...) and ! apply
ToBoolean(x) ==
    CASE x.type \in {"undefined", "null"} -> FALSE
      [] x.type = "boolean" -> x = Bool(TRUE)
      [] x.type = "number" -> x.v # <<"0">> /\ x # NaN
      [] x.type = "string" -> x.v # <<>>
      [] OTHER -> TRUE

\* an options object is a function from the property names it has to values
NoOptions == [k \in {} |-> undefined]

\* options[k]
property(options, k) == IF k \in DOMAIN options THEN options[k] ELSE undefined

\* if (options.k) cookie += `; Label=${options.k}`
attribute(options, k, label) ==
    IF ToBoolean(property(options, k)) THEN label \o property(options, k).v ELSE <<>>

\* if (options.k) cookie += `; Label`
flag(options, k, label) ==
    IF ToBoolean(property(options, k)) THEN label ELSE <<>>

\* the directive setCookie(name, value, options) pushes
setCookieDirective(name, value, options) ==
    name \o <<"=">> \o encodeURIComponent(value)
        \o attribute(options, "path", <<";", " ", "P", "a", "t", "h", "=">>)
        \o attribute(options, "maxAge", <<";", " ", "M", "a", "x", "-", "A", "g", "e", "=">>)
        \o attribute(options, "expires", <<";", " ", "E", "x", "p", "i", "r", "e", "s", "=">>)
        \o flag(options, "httpOnly", <<";", " ", "H", "t", "t", "p", "O", "n", "l", "y">>)
        \o flag(options, "secure", <<";", " ", "S", "e", "c", "u", "r", "e">>)
        \o attribute(options, "sameSite", <<";", " ", "S", "a", "m", "e", "S", "i", "t", "e", "=">>)
        \o attribute(options, "domain", <<";", " ", "D", "o", "m", "a", "i", "n", "=">>)

\* the directive deleteCookie(name, options) pushes
deleteCookieDirective(name, options) ==
    name \o <<"=", ";", " ", "M", "a", "x", "-", "A", "g", "e", "=", "0">>
        \o attribute(options, "path", <<";", " ", "P", "a", "t", "h", "=">>)
        \o attribute(options, "domain", <<";", " ", "D", "o", "m", "a", "i", "n", "=">>)

NoArgs == [name |-> <<>>, value |-> <<>>, options |-> NoOptions, location |-> ""]

NoCall == [op |-> "", n |-> 0, data |-> Null, args |-> NoArgs]

\* res(): the closure variables of a new ResponseHandler, with the Responses
\* it has returned, the warnings it has written and the last call made on it
ResponseHandler ==
    [headers |-> <<>>, sent |-> FALSE, status |-> 200, cookieHeaders |-> <<>>,
     responses |-> <<>>, warnings |-> 0, calls |-> 0, last |-> NoCall]

\* no ResponseHandler has been made for the request
NoHandler == [ResponseHandler EXCEPT !.status = 0]

\* a call on the ResponseHandler returned
afterCall(b, op, n, data) ==
    [b EXCEPT !.calls = @ + 1,
              !.last = [op |-> op, n |-> n, data |-> data, args |-> NoArgs]]

\* variant: the global headers are written after the handler's own
sendResponse_globalLast(b, data) ==
    LET isObj      == data.type # "string"
        typeHeader == IF isObj THEN "application/json" ELSE "text/html"
    IN  Response(b.status,
                 IF isObj THEN JSONstringify(data) ELSE data.v,
                 headersSetAll(
                     headersSetAll(headersSet(EmptyMap, "Content-Type", typeHeader),
                                   b.headers, 1),
                     globalHeaders, 1))

\* the Response that send(data) builds
sendResponse(b, data) ==
    LET isObj      == data.type # "string"
        typeHeader == IF isObj THEN "application/json" ELSE "text/html"
    IN  Response(b.status,
                 IF isObj THEN JSONstringify(data) ELSE data.v,
                 headersSetAll(
                     headersSetAll(headersSet(EmptyMap, "Content-Type", typeHeader),
                                   globalHeaders, 1),
                     b.headers, 1))

\* {...record, ...other}: the properties of other are assigned in their order
RECURSIVE spread(_, _, _)
spread(record, other, i) ==
    IF i > Len(other) THEN record
    ELSE spread(setKey(record, other[i].key, other[i].value), other, i + 1)

\* headers.append(name, value): a second value for a name joins the first
headersAppend(headers, name, value) ==
    IF toLowerCase(name) \in DOMAIN headers
    THEN put(headers, toLowerCase(name), headers[toLowerCase(name)] \o ", " \o value)
    ELSE put(headers, toLowerCase(name), value)

\* new Headers(record), as the Response constructor fills its headers
RECURSIVE headersOf(_, _, _)
headersOf(headers, record, i) ==
    IF i > Len(record) THEN headers
    ELSE headersOf(headersAppend(headers, record[i].key, record[i].value), record, i + 1)

\* the Response that redirect(location, status) builds
redirectResponse(b, location, status) ==
    Response(status, NoBody,
             headersSetAll(
                 headersOf(EmptyMap,
                           spread(<<[key |-> "Location", value |-> location]>>,
                                  globalHeaders, 1),
                           1),
                 b.headers, 1))

----------------------------------------------------------------------------
(* Errors, responses and the fetch invocation *)

NoError == [name |-> "none", status |-> 0, message |-> "", url |-> <<>>]

\* new BunServerError(message, status); the url is the part of the message
\* that quotes request.url
BunServerError(message, status, url) ==
    [name |-> "BunServerError", status |-> status, message |-> message, url |-> url]

\* an error thrown by application code or by the runtime: no status field
ForeignError(message) ==
    [name |-> "Error", status |-> 0, message |-> message, url |-> <<>>]

NoHeaders == [contentType |-> "", cookie |-> <<>>]

NoRecord == [error |-> NoError, method |-> "", path |-> <<>>, headers |-> NoHeaders, status |-> 0]

\* what fetch hands back to the runtime
\* headers are those fetch itself gives the Response; a Response made by the
\* application (guard, handler, error handler) is returned as it is
Result(kind, status, body, id) ==
    [kind |-> kind, status |-> status, body |-> body, id |-> id,
     message |-> "", stack |-> FALSE, arg |-> NoRecord, headers |-> EmptyMap]

NoResult == Result("none", 0, "", 0)

Event(ev, n, res) == [ev |-> ev, n |-> n, res |-> res]

\* the objects of a request that a guard or a handler can write to, by
\* address (0 = not made): req.params with its path, query and body objects,
\* req.cookies, req.state and the closure of the ResponseHandler
NoContext == [cookies |-> 0, params |-> 0, state |-> 0, res |-> 0]

Addresses == 1..8

Idle ==
    [pc |-> "idle", method |-> "", path |-> <<>>, headers |-> NoHeaders,
     pathKey |-> NoKey, params |-> EmptyMap, dir |-> 0, guard |-> 0,
     awaited |-> FALSE, log |-> <<>>, fault |-> NoError, caughtBy |-> "none",
     errorCalls |-> <<>>, result |-> NoResult, res |-> NoHandler,
     raw |-> <<>>, body |-> EmptyObject, id |-> 0, ctx |-> NoContext,
     cookies |-> EmptyMap, search |-> <<>>, query |-> EmptyMap]

\* the addresses of the objects an invocation has made
owned(q) == {q.ctx[f] : f \in DOMAIN q.ctx} \ {0}

\* a new object: an address no live object has (the lowest one)
new(live) ==
    CHOOSE a \in Addresses : a \notin live /\ \A b \in Addresses \ live : a <= b

\* variant: the state option is one object, handed to every request
state_shared(live) == Len(heap)

\* the state option of createServer, by default () => { return {} }: every
\* call makes an object
state(live) == new(live)

\* const cookies = ...reduce(..., {}) and the req literal with params and
\* state: state(), made while the invocation `other` is waiting; res() has not
\* been called
RequestContext(other) ==
    LET cookies == new(owned(other))
        params  == new(owned(other) \cup {cookies})
    IN  [cookies |-> cookies, params |-> params,
         state |-> state(owned(other) \cup {cookies, params}), res |-> 0]

finish(q, result) == [q EXCEPT !.pc = "done", !.result = result]

\* variant: the record handed to the error handler loses the error's status
catchOuter_dropsStatus(q, e) ==
    LET rec == [error |-> e, method |-> q.method, path |-> q.path,
                headers |-> q.headers, status |-> 0]
        q1  == [q EXCEPT !.fault = e, !.caughtBy = "outer"]
    IN  IF _errorHandler # 0
        THEN finish([q1 EXCEPT !.errorCalls = Append(@, rec),
                               !.log = Append(@, Event("errorHandler", _errorHandler, ""))],
                    [Result("errorHandlerResult", 0, "", _errorHandler) EXCEPT !.arg = rec])
        ELSE finish(q1, Result("text", 500, "Internal server error", 0))

\* the outer catch of fetch
catchOuter(q, e) ==
    LET rec == [error |-> e, method |-> q.method, path |-> q.path,
                headers |-> q.headers, status |-> e.status]
        q1  == [q EXCEPT !.fault = e, !.caughtBy = "outer"]
    IN  IF _errorHandler # 0
        THEN finish([q1 EXCEPT !.errorCalls = Append(@, rec),
                               !.log = Append(@, Event("errorHandler", _errorHandler, ""))],
                    [Result("errorHandlerResult", 0, "", _errorHandler) EXCEPT !.arg = rec])
        ELSE finish(q1, Result("text", 500, "Internal server error", 0))

\* the catch around body decoding and the awaited handler call
catchBody(q, e, development) ==
    finish([q EXCEPT !.fault = e, !.caughtBy = "body"],
           [Result("json", 500, "error", 0) EXCEPT
               !.message = IF e.message # "" THEN e.message ELSE "Internal Server Error",
               !.stack = development,
               !.headers = headersSet(EmptyMap, "Content-Type", "application/json")])

\* the catch around the handler section
catchInner(q, e) ==
    finish([q EXCEPT !.fault = e, !.caughtBy = "inner"],
           Result("text", 500, "Internal server error", 0))

\* variant: a handler registered for the matched key is looked for before the
\* websocket check
afterGuards_routesFirst(q) ==
    IF ~validateMethod(q.method)
    THEN finish(q, Result("text", 405, "Method not allowed", 0))
    ELSE IF lookup(registeredMethods[q.method], q.pathKey) # 0
    THEN IF q.method \in BodyMethods
         THEN [q EXCEPT !.pc = "decode", !.log = Append(@, Event("decodeStart", 0, ""))]
         ELSE [q EXCEPT !.pc = "invoke"]
    ELSE IF webSocket.enabled /\ q.path = webSocket.path
    THEN [q EXCEPT !.pc = "upgrade"]
    ELSE catchOuter(q, BunServerError("Not found", 404, <<>>))

\* from the websocket check to the point where fetch next calls out or awaits
afterGuards(q) ==
    IF webSocket.enabled /\ q.path = webSocket.path
    THEN [q EXCEPT !.pc = "upgrade"]
    ELSE IF ~validateMethod(q.method)
    THEN finish(q, Result("text", 405, "Method not allowed", 0))
    ELSE IF q.method = "OPTIONS" /\ lookup(registeredMethods[q.method], q.pathKey) = 0
    THEN finish(q, [Result("globalHeadersOnly", 200, "", 0) EXCEPT
                       !.headers = headersSetAll(EmptyMap, globalHeaders, 1)])
    ELSE IF lookup(registeredMethods[q.method], q.pathKey) # 0
    THEN IF q.method \in BodyMethods
         THEN [q EXCEPT !.pc = "decode", !.log = Append(@, Event("decodeStart", 0, ""))]
         ELSE [q EXCEPT !.pc = "invoke"]
    ELSE catchOuter(q, BunServerError("Not found", 404, <<>>))

callGuard(q, k) ==
    [q EXCEPT !.pc = "guard", !.guard = k, !.log = Append(@, Event("guardStart", k, ""))]

\* variant: the upgrade path is looked at before the matcher and the guards
route_websocketFirst(q) ==
    IF webSocket.enabled /\ q.path = webSocket.path
    THEN [q EXCEPT !.pc = "upgrade"]
    ELSE LET pathKey == getMatchingPathKey(q.method, q.path)
         IN  IF pathKey = NoKey
             THEN catchOuter(q, BunServerError("Not found", 404, <<>>))
             ELSE LET q1 == [q EXCEPT !.pathKey = pathKey,
                                      !.params = getParamsFromPath(pathKey, q.path),
                                      !.ctx = RequestContext(parked)]
                  IN  IF _preRequestHandlers > 0 THEN callGuard(q1, 1) ELSE afterGuards(q1)

\* from the matcher to the first guard call
route(q) ==
    LET pathKey == getMatchingPathKey(q.method, q.path)
    IN  IF pathKey = NoKey
        THEN catchOuter(q, BunServerError("Not found", 404, <<>>))
        ELSE IF cookiesThrow(q.headers.cookie)
        THEN catchOuter([q EXCEPT !.pathKey = pathKey], ForeignError("URI malformed"))
        ELSE LET q1 == [q EXCEPT !.pathKey = pathKey,
                                 !.cookies = cookiesReduce(cookiePairs(q.headers.cookie),
                                                           1, EmptyMap),
                                 !.params = getParamsFromPath(pathKey, q.path),
                                 !.ctx = RequestContext(parked)]
             IN  IF _preRequestHandlers > 0 THEN callGuard(q1, 1) ELSE afterGuards(q1)

----------------------------------------------------------------------------
(* Inputs *)

RegMethods == {"GET", "POST"}
ReqMethods == {"GET", "POST", "OPTIONS", "BREW"}

\* route templates and request paths of the dispatch specification
Patterns == { <<"/", ":", "a">> }
Paths == { <<"/", "a">>, <<"/", "w", "s">>, <<"/", "a", "/", "b">> }

\* route templates and request paths of the matcher specification
MatchPatterns ==
    { <<"/", "a", "/", "b">>,
      <<"/", "a", "/", ":", "b">>,
      <<"/", ":", "a", "/", ":", "b">>,
      <<"/", ":", "a", "/", ":", "a">>,
      <<"/", "a", "/", "*">> }
MatchPaths ==
    { <<"/", "a">>,
      <<"/", "a", "/", "b">>,
      <<"/", "a", "/", "b", "/", "c">>,
      <<"/", "a", "/", "%", "6", "2">>,
      <<"/", "a", "/", "/", "b">>,
      <<"/", "a", "b">>,
      <<"/", "x">> }

\* route templates and request paths of the upgrade specification: a literal
\* and a parameterized template that both take the upgrade path
UpgradePatterns == { <<"/", ":", "a">>, <<"/", "w", "s">> }
UpgradePaths == { <<"/", "a">>, <<"/", "w", "s">> }

\* the request body of the specifications that do not vary it
Bodies == { <<"{", "\"", "q", "\"", ":", "1", "}">> }

\* the body specification: routes, request methods, paths, headers and bodies
BodyRegMethods == {"GET", "POST", "PATCH", "DELETE"}
BodyPatterns == { <<"/", "i", "t", "e", "m", "s", "/", ":", "i", "d">> }
BodyPaths == { <<"/", "i", "t", "e", "m", "s", "/", "7">> }
BodyHeaderSets ==
    { [contentType |-> "application/json", cookie |-> <<>>],
      [contentType |-> "application/json; charset=utf-8", cookie |-> <<>>],
      [contentType |-> "text/plain", cookie |-> <<>>],
      [contentType |-> "", cookie |-> <<>>] }
BodyTexts == { <<"{", "\"", "q", "\"", ":", "1", "}">>, <<"{", "\"", "q", "\"", ":">>, <<"\"", "h", "i", "\"">>, <<>> }

\* request URLs with and without a query string
QueryURLs ==
    { <<"/", "a">>, <<"/", "a", "?">>, <<"/", "a", "?", "x", "=", "1">>,
      <<"/", "a", "?", "x", "=", "1", "&", "x", "=", "2", "&", "y", "=", "3">>,
      <<"/", "a", "?", "x", "=", "a", "+", "b", "&", "&", "y">>, <<"/", "a", "?", "x", "=", "1", "=", "2", "&", "x", "=", "%", "3", "D">> }

\* literal patterns, and request paths with and without a trailing slash
LiteralPatterns == { <<"/", "h", "e", "l", "l", "o">>, <<"/", "a", "/", "b">> }
LiteralPaths == { <<"/", "h", "e", "l", "l", "o">>, <<"/", "h", "e", "l", "l", "o", "/">>, <<"/", "a", "/", "b", "/">>, <<"/", "a">> }

\* Cookie headers: pairs that are well formed, a pair without "=", a pair
\* without a name, a value with a "%" that is no escape
CookieHeaders ==
    { <<>>, <<"a", "=", "1">>, <<"a", "=", "1", ";", " ", "b", "=", "2">>, <<"a", "=", "%", "3", "D">>,
      <<"a", "b", "c">>, <<"=", "x", ";", " ", "b", "=", "2">>, <<"a", "=", "%">>, <<"a", "=", "1", ";", " ", "b", "=", "%", "z", "z">> }
CookieHeaderSets == { [contentType |-> "", cookie |-> c] : c \in CookieHeaders }

HeaderSets == { [contentType |-> "application/json", cookie |-> <<>>], [contentType |-> "", cookie |-> <<>>] }
ErrorHandlers == {1}
Messages == {"boom", "secret"}
Dirs == {"public"}

\* request paths and the globalHeaders option of the response specification
ResponsePaths == { <<"/", "a">> }
GlobalHeaderSets ==
    { <<>>,
      <<[key |-> "X-A", value |-> "global"], [key |-> "X-G", value |-> "global"]>>,
      <<[key |-> "content-type", value |-> "text/plain"]>> }

\* what a route handler passes to its ResponseHandler
Statuses == {201, 404}
HeaderCalls ==
    { [key |-> "X-A", value |-> "handler"],
      [key |-> "Content-Type", value |-> "text/csv"] }
Payloads ==
    { Str(<<"h", "i">>),
      Obj(<<"a">>, Str(<<"h", "i">>)),
      Obj(<<"a">>, Num(<<"1">>)),
      NaN }
\* cookie calls of the response specification: no options
PlainCookies ==
    { [name |-> <<"s", "i", "d">>, value |-> <<"a", " ", "b">>, options |-> NoOptions] }
PlainDeletes ==
    { [name |-> <<"s", "i", "d">>, value |-> <<>>, options |-> NoOptions] }

\* cookie calls of the cookie specification
Epoch == Date(<<"T", "h", "u", ",", " ", "0", "1", " ", "J", "a", "n", " ", "1", "9", "7", "0", " ", "0", "0", ":", "0", "0", ":", "0", "0", " ", "G", "M", "T">>)
AllOptions ==
    [k \in {"path", "maxAge", "expires", "httpOnly", "secure", "sameSite", "domain"} |->
        CASE k = "path" -> Str(<<"/">>)
          [] k = "maxAge" -> Num(<<"6", "0">>)
          [] k = "expires" -> Epoch
          [] k = "httpOnly" -> Bool(TRUE)
          [] k = "secure" -> Bool(TRUE)
          [] k = "sameSite" -> Str(<<"L", "a", "x">>)
          [] k = "domain" -> Str(<<"x", ".", "y">>)]

\* the properties ks of an options object, the others left out
only(options, ks) == [k \in ks |-> options[k]]

Expiring == [AllOptions EXCEPT !["maxAge"] = Num(<<"0">>)]

CookieCalls ==
    { [name |-> <<"a">>, value |-> <<"b">>, options |-> only(AllOptions, ks)] :
        ks \in { {}, {"httpOnly", "maxAge"}, {"path", "domain"}, {"secure", "sameSite"},
                 {"expires"},
                 {"path", "maxAge", "expires", "httpOnly", "secure", "sameSite", "domain"} } }
    \cup
    { [name |-> <<"a">>, value |-> v, options |-> only(Expiring, ks)] :
        v \in { <<"b">>, <<>> },
        ks \in { {"maxAge"}, {"maxAge", "path"}, {"maxAge", "path", "domain"} } }
DeleteCalls ==
    { [name |-> <<"a">>, value |-> <<>>, options |-> only(AllOptions, ks)] :
        ks \in { {}, {"path"}, {"path", "domain"} } }
Locations == { "/login" }
Codes == {0}

\* the redirect specification: its globalHeaders options and what its
\* handlers pass to setHeader and redirect
RedirectGlobals ==
    { <<>>,
      <<[key |-> "X-G", value |-> "global"]>>,
      <<[key |-> "Location", value |-> "/global"]>>,
      <<[key |-> "location", value |-> "/global"]>> }
RedirectHeaderCalls ==
    { [key |-> "X-A", value |-> "handler"],
      [key |-> "Location", value |-> "/handler"] }
RedirectCodes == {0, 301}

WebSocketConfigs ==
    { [enabled |-> FALSE, path |-> <<>>, onUpgrade |-> FALSE, onMessage |-> FALSE, onConnected |-> FALSE, onClose |-> FALSE],
      [enabled |-> TRUE, path |-> <<"/", "w", "s">>, onUpgrade |-> TRUE, onMessage |-> FALSE, onConnected |-> FALSE, onClose |-> FALSE],
      [enabled |-> TRUE, path |-> <<"/", "w", "s">>, onUpgrade |-> FALSE, onMessage |-> FALSE, onConnected |-> FALSE, onClose |-> FALSE] }

\* the webSocket option with and without an onMessage hook
SocketConfigs ==
    { [enabled |-> TRUE, path |-> <<"/", "w", "s">>, onUpgrade |-> FALSE, onMessage |-> hook,
      onConnected |-> FALSE, onClose |-> FALSE] :
        hook \in BOOLEAN }

\* the webSocket option with all its hooks
SessionConfigs ==
    { [enabled |-> TRUE, path |-> <<"/", "w", "s">>, onUpgrade |-> TRUE, onMessage |-> TRUE,
       onConnected |-> TRUE, onClose |-> TRUE] }

\* what onUpgrade returned for the connection, what a hook writes to the data
\* of the connection ("" = nothing), and the messages of a session
Attached == {"true", "{id: 1}"}
DataWrites == {"", "{id: 2}"}
SessionMessages == { Str(<<"h", "i">>), Str(<<"7">>) }

\* what a client sends: texts that are JSON, a text that is not, and a binary
\* message
Inbound ==
    { Str(<<"{", "\"", "q", "\"", ":", "1", "}">>), Str(<<"\"", "h", "i", "\"">>), Str(<<"7">>), Str(<<"t", "r", "u", "e">>),
      Str(<<"0">>), Str(<<"f", "a", "l", "s", "e">>), Str(<<"n", "u", "l", "l">>),
      Str(<<"\"", "\"">>), Str(<<"h", "i">>), Buffer(<<"1", "2">>, 0, 2) }

\* what the application hands to send of the wrapper
Outbound ==
    { Obj(<<"a">>, Str(<<"h", "i">>)), Null, Str(<<"h", "i">>), Str(<<>>),
      Buffer(<<"1", "2", "3">>, 0, 3), Buffer(<<"1", "2", "3">>, 1, 2),
      Num(<<"4", "2">>), Bool(TRUE), undefined }

----------------------------------------------------------------------------
(* Registration surface *)

\* JavaScript runs one callback at a time: other code of the program runs only
\* while fetch is suspended at an await, or between fetch invocations
Suspended == r.pc \in {"idle", "static", "guard", "decode", "handler"}

register(methods, patterns) ==
    /\ Suspended
    /\ nextHandler <= MaxRoutes
    /\ \E method \in methods, path \in patterns :
          registeredMethods' =
              [registeredMethods EXCEPT ![method] = assign(@, path, nextHandler)]
    /\ nextHandler' = nextHandler + 1
    /\ UNCHANGED <<_errorHandler, _preRequestHandlers, PUBLIC_DIRECTORIES, webSocket,
                   globalHeaders, r, parked, heap, socket>>

onError ==
    /\ Suspended
    /\ \E errorHandler \in ErrorHandlers : _errorHandler' = errorHandler
    /\ UNCHANGED <<registeredMethods, _preRequestHandlers, PUBLIC_DIRECTORIES,
                   webSocket, globalHeaders, nextHandler, r, parked, heap, socket>>

addPreRequestHandler ==
    /\ Suspended
    /\ _preRequestHandlers < MaxGuards
    /\ _preRequestHandlers' = _preRequestHandlers + 1
    /\ UNCHANGED <<registeredMethods, _errorHandler, PUBLIC_DIRECTORIES,
                   webSocket, globalHeaders, nextHandler, r, parked, heap, socket>>

addPublicDirectory ==
    /\ Suspended
    /\ Len(PUBLIC_DIRECTORIES) < MaxDirs
    /\ \E dir \in Dirs : PUBLIC_DIRECTORIES' = Append(PUBLIC_DIRECTORIES, dir)
    /\ UNCHANGED <<registeredMethods, _errorHandler, _preRequestHandlers,
                   webSocket, globalHeaders, nextHandler, r, parked, heap, socket>>

----------------------------------------------------------------------------
(* fetch *)

server == <<registeredMethods, _errorHandler, _preRequestHandlers,
            PUBLIC_DIRECTORIES, webSocket, globalHeaders, nextHandler>>

rest == <<parked, heap, socket>>

\* the runtime calls fetch: up to the first await, call-out or return
fetch(methods, paths, headerSets, bodies) ==
    /\ r.pc = "idle"
    /\ \E method \in methods, url \in paths, headers \in headerSets, raw \in bodies :
          LET q == [Idle EXCEPT !.method = method, !.path = pathname(url),
                                !.search = search(url), !.headers = headers,
                                !.raw = raw, !.id = IF parked.id = 1 THEN 2 ELSE 1]
          IN  r' = IF method = "GET" /\ Len(PUBLIC_DIRECTORIES) > 0
                   THEN [q EXCEPT !.pc = "static", !.dir = 1]
                   ELSE route(q)
    /\ UNCHANGED <<server, rest>>

\* variant: the matcher runs before the file is served
fileExists_matchesFirst ==
    /\ r.pc = "static"
    /\ \E exists \in BOOLEAN :
          r' = IF exists
               THEN finish([r EXCEPT !.pathKey = getMatchingPathKey(r.method, r.path)],
                           Result("file", 200, "file", r.dir))
               ELSE IF r.dir < Len(PUBLIC_DIRECTORIES) THEN [r EXCEPT !.dir = r.dir + 1]
               ELSE route(r)
    /\ UNCHANGED <<server, rest>>

\* await file.exists() settles for the directory at hand
fileExists ==
    /\ r.pc = "static"
    /\ \E exists \in BOOLEAN :
          r' = IF exists THEN finish(r, Result("file", 200, "file", r.dir))
               ELSE IF r.dir < Len(PUBLIC_DIRECTORIES) THEN [r EXCEPT !.dir = r.dir + 1]
               ELSE route(r)
    /\ UNCHANGED <<server, rest>>

GuardResults == {"true", "false", "other", "Response", "throw"}

\* variant: a Response returned by a guard is not looked at
guardSettles_ignoresResponse ==
    /\ r.pc = "guard"
    /\ \E result \in GuardResults, message \in Messages :
          LET q == [r EXCEPT !.log = Append(@, Event("guardEnd", r.guard, result))]
          IN  r' = CASE result = "throw" -> catchOuter(q, ForeignError(message))
                     [] result = "false" ->
                          catchOuter(q, BunServerError(
                              "Bad Request: onRequest failed to validate", 400, q.path))
                     [] OTHER -> IF r.guard < _preRequestHandlers
                                 THEN callGuard(q, r.guard + 1)
                                 ELSE afterGuards(q)
    /\ UNCHANGED <<server, rest>>

\* variant: the loop ends after the first guard that allows the request
guardSettles_skipsRest ==
    /\ r.pc = "guard"
    /\ \E result \in GuardResults, message \in Messages :
          LET q == [r EXCEPT !.log = Append(@, Event("guardEnd", r.guard, result))]
          IN  r' = CASE result = "throw" -> catchOuter(q, ForeignError(message))
                     [] result = "Response" -> finish(q, Result("guardResponse", 0, "", r.guard))
                     [] result = "false" ->
                          catchOuter(q, BunServerError(
                              "Bad Request: onRequest failed to validate", 400, q.path))
                     [] OTHER -> afterGuards(q)
    /\ UNCHANGED <<server, rest>>

\* await guard(req) settles
guardSettles ==
    /\ r.pc = "guard"
    /\ \E result \in GuardResults, message \in Messages :
          LET q == [r EXCEPT !.log = Append(@, Event("guardEnd", r.guard, result))]
          IN  r' = CASE result = "throw" -> catchOuter(q, ForeignError(message))
                     [] result = "Response" -> finish(q, Result("guardResponse", 0, "", r.guard))
                     [] result = "false" ->
                          catchOuter(q, BunServerError(
                              "Bad Request: onRequest failed to validate", 400, q.path))
                     [] OTHER -> IF r.guard < _preRequestHandlers
                                 THEN callGuard(q, r.guard + 1)
                                 ELSE afterGuards(q)
    /\ UNCHANGED <<server, rest>>

\* what onUpgrade does in the model: the value it returns, written as
\* JavaScript writes it, or "throw"
HookResults == {"false", "undefined", "true", "{id: 1}", "throw"}

FalsyValues == {"false", "undefined", "null", "0", "NaN", ""}

\* !value
falsy(value) == value \in FalsyValues

\* server.upgrade(request, options) is called and returns success; n is 1 when
\* an options object carrying data is passed, 0 when the call has no options
serverUpgrade(q, n, data, success) ==
    [q EXCEPT !.log = @ \o <<Event("upgrade", n, data),
                             Event("upgradeEnd", 0, IF success THEN "true" ELSE "false")>>]

\* variant: the connection is upgraded before the hook's answer is looked at
websocketBranch_upgradesFirst(q, hook, success, message) ==
    LET called == [q EXCEPT !.log = Append(@, Event("onUpgrade", 0, hook))]
    IN  IF webSocket.onUpgrade
        THEN CASE hook = "throw" -> catchOuter(called, ForeignError(message))
               [] falsy(hook) ->
                    catchOuter(serverUpgrade(called, 1, hook, success), BunServerError(
                        "Websocket upgrade error. The onUpgrade function returned false.",
                        400, <<>>))
               [] OTHER ->
                    IF success
                    THEN finish(serverUpgrade(called, 1, hook, success),
                                Result("undefined", 0, "", 0))
                    ELSE catchOuter(serverUpgrade(called, 1, hook, success), BunServerError(
                        "Websocket upgrade error. Bun threw while trying to upgrade the connection.",
                        400, <<>>))
        ELSE IF success
             THEN finish(serverUpgrade(q, 0, "", success), Result("undefined", 0, "", 0))
             ELSE catchOuter(serverUpgrade(q, 0, "", success), BunServerError(
                        "Websocket upgrade error. Bun failed to upgrade the connection.",
                        400, <<>>))

\* variant: the value the hook returned is not handed to server.upgrade
websocketBranch_dropsData(q, hook, success, message) ==
    LET called == [q EXCEPT !.log = Append(@, Event("onUpgrade", 0, hook))]
    IN  IF webSocket.onUpgrade
        THEN CASE hook = "throw" -> catchOuter(called, ForeignError(message))
               [] falsy(hook) ->
                    catchOuter(called, BunServerError(
                        "Websocket upgrade error. The onUpgrade function returned false.",
                        400, <<>>))
               [] OTHER ->
                    IF success
                    THEN finish(serverUpgrade(called, 0, "", success),
                                Result("undefined", 0, "", 0))
                    ELSE catchOuter(serverUpgrade(called, 0, "", success), BunServerError(
                        "Websocket upgrade error. Bun threw while trying to upgrade the connection.",
                        400, <<>>))
        ELSE IF success
             THEN finish(serverUpgrade(q, 0, "", success), Result("undefined", 0, "", 0))
             ELSE catchOuter(serverUpgrade(q, 0, "", success), BunServerError(
                        "Websocket upgrade error. Bun failed to upgrade the connection.",
                        400, <<>>))

\* the websocket branch of fetch: onUpgrade and server.upgrade are called
\* synchronously
websocketBranch(q, hook, success, message) ==
    LET called == [q EXCEPT !.log = Append(@, Event("onUpgrade", 0, hook))]
    IN  IF webSocket.onUpgrade
        THEN CASE hook = "throw" -> catchOuter(called, ForeignError(message))
               [] falsy(hook) ->
                    catchOuter(called, BunServerError(
                        "Websocket upgrade error. The onUpgrade function returned false.",
                        400, <<>>))
               [] OTHER ->
                    IF success
                    THEN finish(serverUpgrade(called, 1, hook, success),
                                Result("undefined", 0, "", 0))
                    ELSE catchOuter(serverUpgrade(called, 1, hook, success), BunServerError(
                        "Websocket upgrade error. Bun threw while trying to upgrade the connection.",
                        400, <<>>))
        ELSE IF success
             THEN finish(serverUpgrade(q, 0, "", success), Result("undefined", 0, "", 0))
             ELSE catchOuter(serverUpgrade(q, 0, "", success), BunServerError(
                        "Websocket upgrade error. Bun failed to upgrade the connection.",
                        400, <<>>))

upgrade ==
    /\ r.pc = "upgrade"
    /\ \E hook \in HookResults, success \in BOOLEAN, message \in Messages :
          r' = websocketBranch(r, hook, success, message)
    /\ UNCHANGED <<server, rest>>

TextFrame(data) == [kind |-> "text", data |-> data]
BinaryFrame(data) == [kind |-> "binary", data |-> data]

\* send of the wrapper GetModifiedServerWebsocket returns: the frames that
\* one call send(data) hands to ws.send
GetModifiedServerWebsocket(data) ==
    IF typeof(data) = "object" THEN <<TextFrame(JSONstringify(data))>>
    ELSE IF typeof(data) = "string" THEN <<TextFrame(data.v)>>
    ELSE IF data.type = "Buffer" THEN <<BinaryFrame(bytesOf(data))>>
    ELSE <<>>

\* the application calls send(data) on the wrapper it was given
socketSend(payloads) ==
    /\ webSocket.enabled
    /\ Len(socket.sends) < MaxSends
    /\ \E data \in payloads :
          socket' = [socket EXCEPT
                        !.sends = Append(@, [data |-> data,
                                             frames |-> GetModifiedServerWebsocket(data)]),
                        !.frames = @ \o GetModifiedServerWebsocket(data)]
    /\ UNCHANGED <<server, r, parked, heap>>

\* obj || message, with obj the value of JSON.parse(message) for a text
\* message that parses, the message itself for a text message that does not,
\* and undefined for a binary message
delivered(m) ==
    LET obj == IF typeof(m) = "string"
               THEN IF validJSON(m.v) THEN JSONparse(m.v) ELSE m
               ELSE undefined
    IN  IF ToBoolean(obj) THEN obj ELSE m

\* whether ws.data is an object, which the copy {...ws} shares with ws
shared(data) == data \in {"{id: 1}", "{id: 2}"}

\* the runtime calls websocket.message(ws, message); the hook gets the
\* wrapper {...ws, send}, whose data is that of ws, and may write to its
\* properties (write "" = the hook leaves it alone)
websocketMessage(messages, writes) ==
    /\ webSocket.enabled
    /\ socket.phase = "open"
    /\ Len(socket.received) < MaxMessages
    /\ \E m \in messages, write \in writes :
          socket' = [socket EXCEPT
                        !.received = Append(@, m),
                        !.calls = IF webSocket.onMessage
                                  THEN Append(@, [message |-> m, value |-> delivered(m),
                                                  data |-> socket.data])
                                  ELSE @,
                        !.data = IF webSocket.onMessage /\ write # "" /\ shared(@)
                                 THEN write ELSE @]
    /\ UNCHANGED <<server, r, parked, heap>>

\* the runtime calls websocket.open(ws): onConnected gets ws itself and may
\* assign to ws.data
websocketOpen(writes) ==
    /\ webSocket.enabled
    /\ socket.phase = "upgraded"
    /\ \E write \in writes :
          socket' = [socket EXCEPT
                        !.phase = "open",
                        !.data = IF webSocket.onConnected /\ write # "" THEN write ELSE @]
    /\ UNCHANGED <<server, r, parked, heap>>

\* the runtime calls websocket.close(ws): onClose gets ws itself
websocketClose(writes) ==
    /\ webSocket.enabled
    /\ socket.phase = "open"
    /\ \E write \in writes :
          socket' = [socket EXCEPT
                        !.phase = "closed",
                        !.data = IF webSocket.onClose /\ write # "" THEN write ELSE @]
    /\ UNCHANGED <<server, r, parked, heap>>

\* the error of the decoder chosen by the Content-Type header: request.json()
\* rejects on malformed JSON, every decoder rejects on a body already consumed
decodeError(headers) ==
    IF isJSONType(headers.contentType)
    THEN ForeignError("JSON Parse error")
    ELSE ForeignError("Body already used")

\* the handler registered for the matched key is called, with a new
\* ResponseHandler
callHandler(q, awaited) ==
    [q EXCEPT !.pc = "handler", !.awaited = awaited, !.res = ResponseHandler,
              !.ctx.res = new(owned(q) \cup owned(parked)),
              !.log = Append(@, Event("handlerStart",
                                      lookup(registeredMethods[q.method], q.pathKey), ""))]

\* variant: a failed decoding leaves the default body and the handler is called
bodyDecoded_ignoresFailure ==
    /\ r.pc = "decode"
    /\ \E read \in BOOLEAN, throws \in BOOLEAN, message \in Messages, development \in BOOLEAN :
          LET ok == read /\ (isJSONType(r.headers.contentType) => validJSON(r.raw))
              q  == [r EXCEPT !.log = Append(@, Event("decodeEnd", 0, IF ok THEN "ok" ELSE "failed"))]
              q1 == [q EXCEPT !.body = parsedBody(r.headers, r.raw)]
          IN  r' = IF ~ok THEN callHandler(q, TRUE)
                   ELSE IF throws
                   THEN catchBody(callHandler(q1, TRUE), ForeignError(message), development)
                   ELSE callHandler(q1, TRUE)
    /\ UNCHANGED <<server, rest>>

\* await request.json() / text() / formData() / arrayBuffer() settles, and on
\* success the handler is called
bodyDecoded ==
    /\ r.pc = "decode"
    /\ \E read \in BOOLEAN, throws \in BOOLEAN, message \in Messages, development \in BOOLEAN :
          LET ok == read /\ (isJSONType(r.headers.contentType) => validJSON(r.raw))
              q  == [r EXCEPT !.log = Append(@, Event("decodeEnd", 0, IF ok THEN "ok" ELSE "failed"))]
              q1 == [q EXCEPT !.body = parsedBody(r.headers, r.raw)]
          IN  r' = IF ~ok THEN catchBody(q, decodeError(r.headers), development)
                   ELSE IF throws
                   THEN catchBody(callHandler(q1, TRUE), ForeignError(message), development)
                   ELSE callHandler(q1, TRUE)
    /\ UNCHANGED <<server, rest>>

\* a request without a body: the handler is called and its value returned
invoke ==
    /\ r.pc = "invoke"
    /\ \E throws \in BOOLEAN, message \in Messages :
          LET q == [r EXCEPT !.query = searchParams(r.search)]
          IN  r' = IF throws
                   THEN catchInner(callHandler(q, FALSE), ForeignError(message))
                   ELSE callHandler(q, FALSE)
    /\ UNCHANGED <<server, rest>>

\* the promise (or value) the handler returned settles
handlerSettles ==
    /\ r.pc = "handler"
    /\ \E rejects \in BOOLEAN, message \in Messages, development \in BOOLEAN :
          LET q == [r EXCEPT !.log = Append(@, Event("handlerEnd", 0, IF rejects THEN "rejected" ELSE "resolved"))]
              h == lookup(registeredMethods[r.method], r.pathKey)
          IN  r' = IF ~rejects THEN finish(q, Result("handlerResponse", 0, "", h))
                   ELSE IF r.awaited THEN catchBody(q, ForeignError(message), development)
                   ELSE finish([q EXCEPT !.fault = ForeignError(message)],
                               [Result("rejected", 0, "", 0) EXCEPT !.message = message])
    /\ UNCHANGED <<server, rest>>

\* the route handler calls res.setStatus(statusCode)
setStatus ==
    /\ r.pc = "handler"
    /\ r.res.calls < MaxCalls
    /\ \E statusCode \in Statuses :
          r' = [r EXCEPT !.res = afterCall([@ EXCEPT !.status = statusCode],
                                          "setStatus", statusCode, Null)]
    /\ UNCHANGED <<server, rest>>

\* the route handler calls res.setCookie(name, value, options)
setCookie(cookies) ==
    /\ r.pc = "handler"
    /\ r.res.calls < MaxCalls
    /\ \E c \in cookies :
          LET cookie == setCookieDirective(c.name, c.value, c.options)
              b      == afterCall([r.res EXCEPT !.cookieHeaders = Append(@, cookie)],
                                  "setCookie", 0, Null)
          IN  r' = [r EXCEPT !.res = [b EXCEPT !.last.args =
                        [NoArgs EXCEPT !.name = c.name, !.value = c.value,
                                       !.options = c.options]]]
    /\ UNCHANGED <<server, rest>>

\* the route handler calls res.deleteCookie(name, options)
deleteCookie(cookies) ==
    /\ r.pc = "handler"
    /\ r.res.calls < MaxCalls
    /\ \E c \in cookies :
          LET cookie == deleteCookieDirective(c.name, c.options)
              b      == afterCall([r.res EXCEPT !.cookieHeaders = Append(@, cookie)],
                                  "deleteCookie", 0, Null)
          IN  r' = [r EXCEPT !.res = [b EXCEPT !.last.args =
                        [NoArgs EXCEPT !.name = c.name, !.value = c.value,
                                       !.options = c.options]]]
    /\ UNCHANGED <<server, rest>>

\* variant: the header is stored whether or not a Response was built
setHeader_ignoresSent(headerCalls) ==
    /\ r.pc = "handler"
    /\ r.res.calls < MaxCalls
    /\ \E header \in headerCalls :
          r' = [r EXCEPT !.res = afterCall(
                    [@ EXCEPT !.headers = setKey(@, header.key, header.value)],
                    "setHeader", 0, Null)]
    /\ UNCHANGED <<server, rest>>

\* the route handler calls res.setHeader(key, value)
setHeader(headerCalls) ==
    /\ r.pc = "handler"
    /\ r.res.calls < MaxCalls
    /\ \E header \in headerCalls :
          r' = [r EXCEPT !.res = afterCall(
                    IF ~r.res.sent
                    THEN [@ EXCEPT !.headers = setKey(@, header.key, header.value)]
                    ELSE [@ EXCEPT !.warnings = @ + 1],
                    "setHeader", 0, Null)]
    /\ UNCHANGED <<server, rest>>

\* the route handler calls res.redirect(location, status); code 0 stands for
\* a call without the status argument, which is then 302
redirect(locations, codes) ==
    /\ r.pc = "handler"
    /\ r.res.calls < MaxCalls
    /\ \E location \in locations, code \in codes :
          LET status == IF code = 0 THEN 302 ELSE code
              b      == afterCall(
                            [r.res EXCEPT !.sent = TRUE,
                                          !.responses = Append(@, redirectResponse(r.res, location, status))],
                            "redirect", code, Null)
          IN  r' = [r EXCEPT !.res = [b EXCEPT !.last.args.location = location]]
    /\ UNCHANGED <<server, rest>>

\* the route handler calls res.send(data)
send ==
    /\ r.pc = "handler"
    /\ r.res.calls < MaxCalls
    /\ \E data \in Payloads :
          r' = [r EXCEPT !.res = afterCall(
                    [@ EXCEPT !.sent = TRUE,
                              !.responses = Append(@, sendResponse(r.res, data))],
                    "send", 0, data)]
    /\ UNCHANGED <<server, rest>>

\* the runtime takes the result; the next request may come
return ==
    /\ r.pc = "done"
    /\ r' = Idle
    /\ heap' = [a \in Addresses |-> IF a \in owned(r) THEN 0 ELSE heap[a]]
    /\ UNCHANGED <<server, parked, socket>>

\* the code of a guard or of a handler writes, before its next await, to
\* every object of its request: req.params, req.cookies, req.state and, in a
\* handler, the ResponseHandler
write ==
    /\ r.pc \in {"guard", "handler"}
    /\ \E a \in owned(r) : heap[a] # r.id
    /\ heap' = [a \in Addresses |-> IF a \in owned(r) THEN r.id ELSE heap[a]]
    /\ UNCHANGED <<server, r, parked, socket>>

\* the running invocation waits at an await (or has not started, or has
\* ended) and the event loop goes on with the other one
yield ==
    /\ Suspended \/ r.pc = "done"
    /\ r # parked
    /\ r' = parked
    /\ parked' = r
    /\ UNCHANGED <<server, heap, socket>>

----------------------------------------------------------------------------
(* Specifications *)

\* the connection before a frame was sent or a message received: the
\* messages received, the calls of onMessage, the calls of send of the
\* wrapper (each with the frames it forwarded) and the frames on the wire
\* phase is the place of the connection in its life (upgraded, open,
\* closed), attached the value given to server.upgrade as data ("" = none)
\* and data what ws.data is now
NoSocket ==
    [received |-> <<>>, calls |-> <<>>, sends |-> <<>>, frames |-> <<>>,
     phase |-> "open", attached |-> "", data |-> ""]

\* the closure state createServer sets up, whatever its options
Closure ==
    /\ registeredMethods = [m \in ValidMethods |-> <<>>]
    /\ _errorHandler = 0
    /\ _preRequestHandlers = 0
    /\ PUBLIC_DIRECTORIES = <<>>
    /\ nextHandler = 1
    /\ r = Idle
    /\ parked = Idle
    /\ heap = [a \in Addresses |-> 0]

Created ==
    /\ Closure
    /\ socket = NoSocket

\* createServer({port, webSocket?}): globalHeaders defaults to {}
Init ==
    /\ Created
    /\ webSocket \in WebSocketConfigs
    /\ globalHeaders = <<>>

Next ==
    \/ register(RegMethods, Patterns)
    \/ onError
    \/ addPreRequestHandler
    \/ addPublicDirectory
    \/ fetch(ReqMethods, Paths, HeaderSets, Bodies)
    \/ fileExists
    \/ guardSettles
    \/ upgrade
    \/ bodyDecoded
    \/ invoke
    \/ handlerSettles
    \/ return

Spec == Init /\ [][Next]_vars

\* a server on which only routes are registered, without a websocket option
InitMatch ==
    /\ Init
    /\ ~webSocket.enabled

NextMatch ==
    \/ register(RegMethods, MatchPatterns)
    \/ fetch(ReqMethods, MatchPaths, {NoHeaders}, Bodies)
    \/ bodyDecoded
    \/ invoke
    \/ handlerSettles
    \/ return

SpecMatch == InitMatch /\ [][NextMatch]_vars

\* a server created with the webSocket option, on which routes, guards and an
\* error handler are registered
InitUpgrade ==
    /\ Init
    /\ webSocket.enabled

NextUpgrade ==
    \/ register(RegMethods, UpgradePatterns)
    \/ onError
    \/ addPreRequestHandler
    \/ fetch(ReqMethods, UpgradePaths, {NoHeaders}, Bodies)
    \/ guardSettles
    \/ upgrade
    \/ bodyDecoded
    \/ invoke
    \/ handlerSettles
    \/ return

SpecUpgrade == InitUpgrade /\ [][NextUpgrade]_vars

\* a server created with the globalHeaders option, whose GET handlers use the
\* ResponseHandler they are given
InitResponse ==
    /\ Created
    /\ webSocket \in {c \in WebSocketConfigs : ~c.enabled}
    /\ globalHeaders \in GlobalHeaderSets

NextResponse ==
    \/ register({"GET"}, Patterns)
    \/ fetch({"GET"}, ResponsePaths, {NoHeaders}, Bodies)
    \/ invoke
    \/ setStatus
    \/ setCookie(PlainCookies)
    \/ deleteCookie(PlainDeletes)
    \/ setHeader(HeaderCalls)
    \/ redirect(Locations, Codes)
    \/ send
    \/ handlerSettles
    \/ return

SpecResponse == InitResponse /\ [][NextResponse]_vars

\* a server whose GET handlers set and delete cookies, with options
InitCookie ==
    /\ Init
    /\ ~webSocket.enabled

NextCookie ==
    \/ register({"GET"}, Patterns)
    \/ fetch({"GET"}, ResponsePaths, {NoHeaders}, Bodies)
    \/ invoke
    \/ setCookie(CookieCalls)
    \/ deleteCookie(DeleteCalls)
    \/ handlerSettles
    \/ return

SpecCookie == InitCookie /\ [][NextCookie]_vars

\* a server whose GET handlers redirect
InitRedirect ==
    /\ Created
    /\ webSocket \in {c \in WebSocketConfigs : ~c.enabled}
    /\ globalHeaders \in RedirectGlobals

NextRedirect ==
    \/ register({"GET"}, Patterns)
    \/ fetch({"GET"}, ResponsePaths, {NoHeaders}, Bodies)
    \/ invoke
    \/ setStatus
    \/ setHeader(RedirectHeaderCalls)
    \/ redirect(Locations, RedirectCodes)
    \/ handlerSettles
    \/ return

SpecRedirect == InitRedirect /\ [][NextRedirect]_vars

\* a server whose requests carry bodies
InitBody ==
    /\ Init
    /\ ~webSocket.enabled

NextBody ==
    \/ register(BodyRegMethods, BodyPatterns)
    \/ fetch(BodyRegMethods, BodyPaths, BodyHeaderSets, BodyTexts)
    \/ bodyDecoded
    \/ invoke
    \/ handlerSettles
    \/ return

SpecBody == InitBody /\ [][NextBody]_vars

\* two requests in flight; routes and guards are set up before the first
\* one, and neither a guard nor a handler throws
Startup == r = Idle /\ parked = Idle

NoFault == r'.fault = NoError /\ r'.caughtBy = "none"

InitConcurrent ==
    /\ Init
    /\ ~webSocket.enabled

NextConcurrent ==
    \/ Startup /\ nextHandler = 1 /\ register({"GET"}, Patterns)
    \/ Startup /\ _preRequestHandlers = 0 /\ addPreRequestHandler
    \/ fetch({"GET"}, ResponsePaths, {NoHeaders}, Bodies)
    \/ guardSettles /\ NoFault
    \/ invoke /\ NoFault
    \/ handlerSettles /\ NoFault
    \/ write
    \/ yield
    \/ return

SpecConcurrent == InitConcurrent /\ [][NextConcurrent]_vars

\* a server with global headers, public directories, guards and handlers
\* that answer with send
InitHeaders ==
    /\ Created
    /\ webSocket \in WebSocketConfigs
    /\ ~webSocket.enabled
    /\ globalHeaders \in GlobalHeaderSets

NextHeaders ==
    \/ Startup /\ register(RegMethods, Patterns)
    \/ Startup /\ addPreRequestHandler
    \/ Startup /\ addPublicDirectory
    \/ fetch({"GET", "POST", "OPTIONS"}, ResponsePaths, HeaderSets, Bodies)
    \/ fileExists
    \/ guardSettles
    \/ bodyDecoded
    \/ invoke
    \/ handlerSettles
    \/ r.res.responses = <<>> /\ send
    \/ return

SpecHeaders == InitHeaders /\ [][NextHeaders]_vars

\* requests with a query string
NextQuery ==
    \/ Startup /\ register(BodyRegMethods, Patterns)
    \/ fetch(BodyRegMethods, QueryURLs, {NoHeaders}, Bodies)
    \/ bodyDecoded
    \/ invoke
    \/ handlerSettles
    \/ return

SpecQuery == InitBody /\ [][NextQuery]_vars

\* literal routes, set up before the first request
NextLiteral ==
    \/ Startup /\ register(RegMethods, LiteralPatterns)
    \/ fetch(RegMethods, LiteralPaths, {NoHeaders}, Bodies)
    \/ bodyDecoded
    \/ invoke
    \/ handlerSettles
    \/ return

SpecLiteral == InitBody /\ [][NextLiteral]_vars

\* requests with a Cookie header
NextCookieHeader ==
    \/ register({"GET"}, Patterns)
    \/ onError
    \/ fetch({"GET"}, ResponsePaths, CookieHeaderSets, Bodies)
    \/ invoke
    \/ handlerSettles
    \/ return

SpecCookieHeader == InitBody /\ [][NextCookieHeader]_vars

\* a server with an open WebSocket connection
InitSocket ==
    /\ Created
    /\ webSocket \in SocketConfigs
    /\ globalHeaders = <<>>

NextSocket ==
    \/ websocketMessage(Inbound, {""})
    \/ socketSend(Outbound)

SpecSocket == InitSocket /\ [][NextSocket]_vars

\* a connection that was upgraded with the value onUpgrade returned
InitSession ==
    /\ Closure
    /\ webSocket \in SessionConfigs
    /\ globalHeaders = <<>>
    /\ \E data \in Attached :
          socket = [NoSocket EXCEPT !.phase = "upgraded", !.attached = data, !.data = data]

NextSession ==
    \/ websocketOpen(DataWrites)
    \/ websocketMessage(SessionMessages, DataWrites)
    \/ socketSend(Outbound)
    \/ websocketClose(DataWrites)

SpecSession == InitSession /\ [][NextSession]_vars

----------------------------------------------------------------------------
(* Vocabulary of the properties *)

\* the step of fetch in which the matcher runs
Routed ==
    /\ r.pc \in {"idle", "static"}
    /\ r'.pc \notin {"idle", "static"}
    /\ r'.result.kind # "file"

registeredKeys(method) ==
    {registeredMethods[method][i].key : i \in 1..Len(registeredMethods[method])}

hasParamSegment(k) == \E i \in 1..Len(segments(k)) : segments(k)[i][1] = ":"

hasWildcardSegment(k) == \E i \in 1..Len(segments(k)) : segments(k)[i] = <<"*">>

isLiteralPattern(k) == ~hasParamSegment(k) /\ ~hasWildcardSegment(k)

\* same number of non-empty segments, literal segments equal position by position
sameShape(k, path) ==
    /\ Len(segments(k)) = Len(segments(path))
    /\ \A i \in 1..Len(segments(k)) :
          segments(k)[i][1] # ":" => segments(k)[i] = segments(path)[i]

declaredNames(k) ==
    {Tail(segments(k)[i]) : i \in {j \in 1..Len(segments(k)) : segments(k)[j][1] = ":"}}

lastPosition(k, name) ==
    LET at == {i \in 1..Len(segments(k)) : segments(k)[i] = <<":">> \o name}
    IN  CHOOSE i \in at : \A j \in at : j <= i

wildcardPrefix(k) == SubSeq(k, 1, Len(k) - 2)

paramCandidates(method, path) ==
    {k \in registeredKeys(method) : hasParamSegment(k) /\ sameShape(k, path)}

wildcardCandidates(method, path) ==
    {k \in registeredKeys(method) :
        isWildcardKey(k) /\ startsWith(path, wildcardPrefix(k))}

handlerCalls(log) == {i \in 1..Len(log) : log[i].ev = "handlerStart"}

\* the step in which the route handler is called
HandlerCalled == Cardinality(handlerCalls(r'.log)) > Cardinality(handlerCalls(r.log))

----------------------------------------------------------------------------
(* Matcher *)

\* C1: a request whose method and path equal a registered (method, literal
\* pattern) resolves to that pattern with an empty path-parameter map, and the
\* handler then called is the one registered for that pattern.
C1_LiteralRoute ==
    [][ /\ ( /\ Routed
             /\ validateMethod(r'.method)
             /\ isLiteralPattern(r'.path)
             /\ r'.path \in registeredKeys(r'.method) )
           => ( r'.pathKey = r'.path /\ r'.params = EmptyMap )
        /\ ( /\ HandlerCalled
             /\ isLiteralPattern(r'.path)
             /\ r'.pathKey = r'.path )
           => ( /\ r'.params = EmptyMap
                /\ \A i \in handlerCalls(r'.log) :
                      \E j \in 1..Len(registeredMethods[r'.method]) :
                         /\ registeredMethods[r'.method][j].key = r'.path
                         /\ registeredMethods[r'.method][j].handler = r'.log[i].n )
      ]_vars

C1_Witness ==
    /\ r.pc = "handler"
    /\ isLiteralPattern(r.path)
    /\ r.pathKey = r.path
    /\ r.params = EmptyMap
    /\ paramCandidates(r.method, r.path) # {}
    /\ \E i \in handlerCalls(r.log) :
          r.log[i].n = lookup(registeredMethods[r.method], r.path)

\* C2: when a registered parameterized template has the shape of the request
\* path, the path-parameter map has exactly the names the matched template
\* declares as keys, and each value is the path segment at the position of
\* that name (the last one, should a template declare a name twice), verbatim.
C2_ParamMap ==
    [][ ( /\ Routed
          /\ validateMethod(r'.method)
          /\ paramCandidates(r'.method, r'.path) # {} )
        => ( /\ r'.pathKey # NoKey
             /\ DOMAIN r'.params = declaredNames(r'.pathKey)
             /\ \A name \in declaredNames(r'.pathKey) :
                   r'.params[name] =
                       segments(r'.path)[lastPosition(r'.pathKey, name)] )
      ]_vars

C2_Witness ==
    /\ r.pc = "handler"
    /\ r.pathKey = <<"/", ":", "a", "/", ":", "b">>
    /\ r.path = <<"/", "a", "/", "%", "6", "2">>
    /\ DOMAIN r.params = {<<"a">>, <<"b">>}
    /\ r.params[<<"a">>] = <<"a">>
    /\ r.params[<<"b">>] = <<"%", "6", "2">>

C4_Priority ==
    [][ ( Routed /\ validateMethod(r'.method) )
        => IF r'.path \in registeredKeys(r'.method)
           THEN r'.pathKey = r'.path
           ELSE IF paramCandidates(r'.method, r'.path) # {}
           THEN r'.pathKey \in paramCandidates(r'.method, r'.path)
           ELSE IF wildcardCandidates(r'.method, r'.path) # {}
           THEN r'.pathKey \in wildcardCandidates(r'.method, r'.path)
           ELSE /\ r'.pathKey = NoKey
                /\ r'.pc = "done"
                /\ r'.fault = BunServerError("Not found", 404, <<>>)
                /\ handlerCalls(r'.log) = {}
      ]_vars

C4_Witness ==
    /\ r.pc = "handler"
    /\ r.pathKey = r.path
    /\ isLiteralPattern(r.path)
    /\ paramCandidates(r.method, r.path) # {}
    /\ wildcardCandidates(r.method, r.path) # {}

----------------------------------------------------------------------------
(* Guard pipeline *)

guardReturned(res) ==
    {i \in 1..Len(r.log) : r.log[i].ev = "guardEnd" /\ r.log[i].res = res}

Allowed == {"true", "other"}

\* C5: when a guard returns a Response, fetch returns that Response, and
\* nothing runs after that guard: no later guard, no upgrade hook or upgrade,
\* no body decoding, no route handler and no error handler.
C5_ShortCircuit ==
    \A i \in guardReturned("Response") :
        /\ i = Len(r.log)
        /\ r.pc = "done"
        /\ r.result = Result("guardResponse", 0, "", r.log[i].n)
        /\ r.fault = NoError
        /\ r.errorCalls = <<>>

C5_Witness ==
    /\ r.pc = "done"
    /\ _preRequestHandlers = 2
    /\ webSocket.enabled
    /\ r.path = webSocket.path
    /\ r.pathKey # NoKey
    /\ r.log = <<Event("guardStart", 1, ""), Event("guardEnd", 1, "Response")>>
    /\ r.result.kind = "guardResponse"

\* the events of one request: guards 1, 2, ... in order, each started right
\* after the one before it allowed the request; a stage that has started ends
\* before anything else happens; the handler is called at most once, after
\* guards that all allowed the request
C6_LogOrdered ==
    /\ \A i \in 1..Len(r.log) :
          /\ r.log[i].ev = "guardStart" =>
                /\ i % 2 = 1
                /\ r.log[i].n = (i + 1) \div 2
                /\ i > 1 => /\ r.log[i - 1].ev = "guardEnd"
                            /\ r.log[i - 1].n = r.log[i].n - 1
                            /\ r.log[i - 1].res \in Allowed
                /\ i < Len(r.log) => /\ r.log[i + 1].ev = "guardEnd"
                                     /\ r.log[i + 1].n = r.log[i].n
          /\ r.log[i].ev = "guardEnd" =>
                i > 1 /\ r.log[i - 1].ev = "guardStart" /\ r.log[i - 1].n = r.log[i].n
          /\ (r.log[i].ev = "decodeStart" /\ i < Len(r.log)) => r.log[i + 1].ev = "decodeEnd"
          /\ r.log[i].ev = "decodeEnd" => i > 1 /\ r.log[i - 1].ev = "decodeStart"
          /\ (r.log[i].ev = "handlerStart" /\ i < Len(r.log)) =>
                r.log[i + 1].ev = "handlerEnd" /\ i + 1 = Len(r.log)
          /\ r.log[i].ev = "handlerEnd" => i > 1 /\ r.log[i - 1].ev = "handlerStart"
          /\ r.log[i].ev = "handlerStart" =>
                \A j \in 1..(i - 1) :
                    r.log[j].ev = "guardEnd" => r.log[j].res \in Allowed
    /\ Cardinality(handlerCalls(r.log)) <= 1
    /\ r.pc = "guard" <=> (r.log # <<>> /\ r.log[Len(r.log)].ev = "guardStart")
    /\ r.pc = "decode" <=> (r.log # <<>> /\ r.log[Len(r.log)].ev = "decodeStart")
    /\ r.pc = "handler" <=> (r.log # <<>> /\ r.log[Len(r.log)].ev = "handlerStart"
                              /\ r.pc # "done")

\* the step in which fetch leaves the guard loop with the request allowed
PipelineLeft ==
    /\ r.pc \in {"idle", "static", "guard"}
    /\ r'.pc \in {"upgrade", "decode", "invoke"}

\* C6: guards run in registration order, one at a time, each started once the
\* one before it has settled; the route handler is called at most once and only
\* after every registered guard has settled allowing the request; no two
\* stages of a request are in progress at once.
C6_Pipeline ==
    /\ []C6_LogOrdered
    /\ [][ /\ PipelineLeft =>
                \A k \in 1.._preRequestHandlers :
                    \E i \in 1..Len(r'.log) :
                        /\ r'.log[i].ev = "guardEnd"
                        /\ r'.log[i].n = k
                        /\ r'.log[i].res \in Allowed
           /\ HandlerCalled => r.pc \in {"decode", "invoke"}
           /\ r'.pc \in {"decode", "invoke"} => (PipelineLeft \/ r.pc = r'.pc)
         ]_vars

C6_Witness ==
    /\ r.pc = "handler"
    /\ _preRequestHandlers = 2
    /\ Len(r.log) >= 5
    /\ r.log[1] = Event("guardStart", 1, "")
    /\ r.log[2] = Event("guardEnd", 1, "true")
    /\ r.log[3] = Event("guardStart", 2, "")
    /\ r.log[4] = Event("guardEnd", 2, "other")
    /\ r.log[Len(r.log)].ev = "handlerStart"

\* C7: when a guard returns false, fetch faults with a BunServerError of status
\* 400 whose message quotes the request URL, no later guard and no route
\* handler runs, and a registered error handler is called once with a record of
\* status 400.
C7_GuardRejects ==
    \A i \in guardReturned("false") :
        /\ r.pc = "done"
        /\ r.fault.name = "BunServerError"
        /\ r.fault.status = 400
        /\ r.fault.url = r.path
        /\ \A j \in (i + 1)..Len(r.log) : r.log[j].ev = "errorHandler"
        /\ _errorHandler # 0 =>
              /\ Len(r.errorCalls) = 1
              /\ r.errorCalls[1].status = 400
              /\ r.errorCalls[1].error = r.fault
              /\ r.log[Len(r.log)] = Event("errorHandler", _errorHandler, "")
        /\ _errorHandler = 0 => r.errorCalls = <<>>

C7_Witness ==
    /\ r.pc = "done"
    /\ _errorHandler # 0
    /\ _preRequestHandlers = 2
    /\ guardReturned("false") = {2}
    /\ Len(r.errorCalls) = 1
    /\ r.errorCalls[1].status = 400

----------------------------------------------------------------------------
(* Error boundary *)

Faulted == r.pc = "done" /\ r.fault # NoError

\* C8: a GET request no registered route matches is answered with status 404
\* when no error handler is registered, and with the error handler's result
\* when one is.
C8_NotFound404 ==
    ( /\ Faulted
      /\ r.method = "GET"
      /\ r.pathKey = NoKey
      /\ r.fault = BunServerError("Not found", 404, <<>>) )
    => IF _errorHandler = 0
       THEN r.result.status = 404
       ELSE /\ Len(r.errorCalls) = 1
            /\ r.result = [Result("errorHandlerResult", 0, "", _errorHandler)
                              EXCEPT !.arg = r.errorCalls[1]]

\* C9: every fault of a dispatch leads to exactly one call of the registered
\* error handler, with a record of the error, the request method, URL and
\* headers and the error's status, and fetch returns what that call returns.
C9_EveryFaultHandled ==
    ( Faulted /\ _errorHandler # 0 )
    => /\ Len(r.errorCalls) = 1
       /\ r.errorCalls[1] = [error |-> r.fault, method |-> r.method, path |-> r.path,
                             headers |-> r.headers, status |-> r.fault.status]
       /\ r.result = [Result("errorHandlerResult", 0, "", _errorHandler)
                         EXCEPT !.arg = r.errorCalls[1]]

\* C10: without an error handler every faulting request gets the same generic
\* failure response, which carries neither the error's message nor its stack.
C10_GenericFailure ==
    ( Faulted /\ _errorHandler = 0 )
    => r.result = Result("text", 500, "Internal server error", 0)

----------------------------------------------------------------------------
(* Method check and OPTIONS probe *)

\* C11: a request whose method is not one of the recognized verbs is answered
\* with "Method not allowed", status 405, and no "Not found" (404) fault is
\* raised for it.
C11_MethodNotAllowed ==
    ( r.pc = "done" /\ ~validateMethod(r.method) )
    => /\ r.result = Result("text", 405, "Method not allowed", 0)
       /\ r.fault = NoError

\* a request goes through fetch without a suspension when no guard is awaited
\* (only GET requests await the static file lookup), so that the route table
\* of the state in which it finishes is the one it was matched against
Unsuspended == \A i \in 1..Len(r.log) : r.log[i].ev # "guardStart"

\* C12: an OPTIONS request to a path for which a route is registered under
\* another verb, and none under OPTIONS, is answered with status 200, no body
\* and the global headers only, and no route handler runs.
C12_OptionsProbe ==
    ( /\ r.pc = "done"
      /\ r.method = "OPTIONS"
      /\ Unsuspended
      /\ ~(webSocket.enabled /\ r.path = webSocket.path)
      /\ getMatchingPathKey("OPTIONS", r.path) = NoKey
      /\ \E method \in ValidMethods \ {"OPTIONS"} :
             getMatchingPathKey(method, r.path) # NoKey )
    => /\ r.result = Result("globalHeadersOnly", 200, "", 0)
       /\ handlerCalls(r.log) = {}

----------------------------------------------------------------------------
(* WebSocket upgrade *)

eventsOf(ev) == {i \in 1..Len(r.log) : r.log[i].ev = ev}

\* C13: when onUpgrade returns false or another falsy value, server.upgrade is
\* not called for that request: fetch faults at once with the 400 error and
\* the request does not end as an upgraded connection.
C13_FalsyHookNoUpgrade ==
    \A i \in eventsOf("onUpgrade") :
        falsy(r.log[i].res) =>
            /\ eventsOf("upgrade") = {}
            /\ eventsOf("upgradeEnd") = {}
            /\ r.pc = "done"
            /\ r.result.kind # "undefined"
            /\ r.fault = BunServerError(
                   "Websocket upgrade error. The onUpgrade function returned false.",
                   400, <<>>)

C13_Witness ==
    /\ r.pc = "done"
    /\ r.path = webSocket.path
    /\ webSocket.onUpgrade
    /\ \E i \in eventsOf("onUpgrade") : r.log[i].res = "undefined"
    /\ eventsOf("upgrade") = {}
    /\ r.fault.status = 400

\* the request finished with one of the three faults of the websocket branch
UpgradeFailed ==
    /\ r.pc = "done"
    /\ r.fault.name = "BunServerError"
    /\ r.fault.status = 400
    /\ \/ \E i \in eventsOf("onUpgrade") : falsy(r.log[i].res)
       \/ \E i \in eventsOf("upgradeEnd") : r.log[i].res = "false"

\* C14: when onUpgrade returns false, or server.upgrade refuses the upgrade,
\* the response fetch returns has status 400 (with an error handler
\* registered: the handler's result, the handler being told status 400).
C14_UpgradeFailure400 ==
    UpgradeFailed
    => IF _errorHandler = 0
       THEN r.result.status = 400
       ELSE /\ Len(r.errorCalls) = 1
            /\ r.errorCalls[1].status = 400
            /\ r.result.kind = "errorHandlerResult"

\* a finished request to the upgrade path that the matcher took and every
\* guard allowed
ReachedUpgrade ==
    /\ r.pc = "done"
    /\ webSocket.enabled
    /\ r.path = webSocket.path
    /\ r.pathKey # NoKey
    /\ \A i \in eventsOf("guardEnd") : r.log[i].res \in Allowed

C16_UpgradePreempts ==
    ( webSocket.enabled /\ r.path = webSocket.path )
    => /\ r.pc \notin {"decode", "invoke", "handler"}
       /\ handlerCalls(r.log) = {}
       /\ eventsOf("decodeStart") = {}
       /\ r.result.kind \notin {"handlerResponse", "rejected", "json"}

C16_Witness ==
    /\ r.pc = "done"
    /\ webSocket.enabled
    /\ r.path = webSocket.path
    /\ r.method = "POST"
    /\ r.pathKey = r.path
    /\ lookup(registeredMethods["POST"], r.path) # 0
    /\ lookup(registeredMethods["POST"], <<"/", ":", "a">>) # 0
    /\ eventsOf("upgradeEnd") # {}
    /\ handlerCalls(r.log) = {}

----------------------------------------------------------------------------
(* ResponseHandler *)

\* the step in which a call of the given method on the ResponseHandler returns
BuilderCall(op) ==
    /\ r.pc = "handler"
    /\ r'.pc = "handler"
    /\ r'.res.calls = r.res.calls + 1
    /\ r'.res.last.op = op

\* C17: a ResponseHandler builds at most one Response: once send or redirect
\* has built one, a later send or redirect builds no second one and a later
\* setStatus changes nothing.
C17_OneResponse ==
    /\ [](Len(r.res.responses) <= 1)
    /\ [][ ( r.pc = "handler" /\ r'.pc = "handler" /\ r.res.sent )
           => ( /\ r'.res.responses = r.res.responses
                /\ r'.res.status = r.res.status )
         ]_vars

\* C18: once send or redirect has built a Response, a setHeader call changes
\* neither a Response already built nor the headers the ResponseHandler holds
\* (nor anything else of it): it writes one warning and does not fault.
C18_SetHeaderAfterSent ==
    [][ ( BuilderCall("setHeader") /\ r.res.sent )
        => ( /\ r'.res.headers = r.res.headers
             /\ r'.res.responses = r.res.responses
             /\ r'.res.status = r.res.status
             /\ r'.res.cookieHeaders = r.res.cookieHeaders
             /\ r'.res.sent
             /\ r'.res.warnings = r.res.warnings + 1
             /\ r'.fault = NoError )
      ]_vars

C18_Witness ==
    /\ r.pc = "handler"
    /\ r.res.last.op = "setHeader"
    /\ r.res.sent
    /\ r.res.warnings = 1
    /\ r.res.headers = <<>>
    /\ Len(r.res.responses) = 1
    /\ DOMAIN r.res.responses[1].headers = {"content-type"}

\* the header names a list of [key, value] gives, as a Headers object holds them
namesOf(record) == {toLowerCase(record[i].key) : i \in 1..Len(record)}

\* the value the last entry of that name gives
valueOf(record, n) ==
    LET at == {i \in 1..Len(record) : toLowerCase(record[i].key) = n}
    IN  record[CHOOSE i \in at : \A j \in at : j <= i].value

defaultType(data) == IF data.type = "string" THEN "text/html" ELSE "application/json"

\* the last Response the ResponseHandler of the next state has built
built == r'.res.responses[Len(r'.res.responses)]

\* C19 as stated: send(data) returns a Response whose status is the last
\* value given to setStatus (200 if none), whose content type is
\* application/json with a body that parses back to data when data is not a
\* string, and a text type with data itself as body when it is, and whose
\* headers are the global headers overridden by those set with setHeader.
C19_SendAsClaimed ==
    [][ BuilderCall("send") =>
          /\ built.status = r.res.status
          /\ built.headers["content-type"] = defaultType(r'.res.last.data)
          /\ r'.res.last.data.type = "string" => built.body = r'.res.last.data.v
          /\ r'.res.last.data.type # "string" => JSONparse(built.body) = r'.res.last.data
          /\ \A n \in namesOf(globalHeaders) \cup namesOf(r.res.headers) :
                /\ n \in DOMAIN built.headers
                /\ built.headers[n] = IF n \in namesOf(r.res.headers)
                                      THEN valueOf(r.res.headers, n)
                                      ELSE valueOf(globalHeaders, n)
      ]_vars

\* C19: a new ResponseHandler has status 200 and only setStatus changes it, to
\* its argument; send(data) returns a new Response with that status; its body
\* is data itself when data is a string, and otherwise the JSON text of data,
\* which parses back to data, except that NaN is written as null; its headers
\* are Content-Type (text/html for a string, application/json otherwise)
\* overridden by the global headers, overridden by the headers set with
\* setHeader, names compared without regard to case.
C19_Send ==
    [][ /\ HandlerCalled => r'.res = ResponseHandler
        /\ BuilderCall("setStatus") => r'.res.status = r'.res.last.n
        /\ ( r.pc = "handler" /\ r'.pc = "handler" /\ ~BuilderCall("setStatus") )
              => r'.res.status = r.res.status
        /\ BuilderCall("send") =>
              /\ r'.res.responses = Append(r.res.responses, built)
              /\ built.status = r.res.status
              /\ r'.res.last.data.type = "string" => built.body = r'.res.last.data.v
              /\ r'.res.last.data.type # "string" =>
                    JSONparse(built.body) =
                        IF r'.res.last.data = NaN THEN Null ELSE r'.res.last.data
              /\ DOMAIN built.headers =
                    {"content-type"} \cup namesOf(globalHeaders) \cup namesOf(r.res.headers)
              /\ \A n \in DOMAIN built.headers :
                    built.headers[n] =
                        IF n \in namesOf(r.res.headers) THEN valueOf(r.res.headers, n)
                        ELSE IF n \in namesOf(globalHeaders) THEN valueOf(globalHeaders, n)
                        ELSE defaultType(r'.res.last.data)
      ]_vars

C19_Witness ==
    /\ r.pc = "handler"
    /\ r.res.last.op = "send"
    /\ r.res.last.data = Obj(<<"a">>, Str(<<"h", "i">>))
    /\ r.res.status = 404
    /\ r.res.headers = <<[key |-> "X-A", value |-> "handler"]>>
    /\ namesOf(globalHeaders) = {"x-a", "x-g"}
    /\ r.res.responses =
          << Response(404,
                      <<"{", "\"", "a", "\"", ":", "\"", "h", "i", "\"", "}">>,
                      [n \in {"content-type", "x-a", "x-g"} |->
                          CASE n = "content-type" -> "application/json"
                            [] n = "x-a" -> "handler"
                            [] n = "x-g" -> "global"]) >>

\* C20: the Response send returns carries every cookie directive setCookie
\* and deleteCookie appended before, one Set-Cookie entry each, in the order
\* of the calls.
C20_CookiesSent ==
    ( r.pc = "handler" /\ r.res.last.op = "send" )
    => getSetCookie(r.res.responses[Len(r.res.responses)]) = r.res.cookieHeaders

----------------------------------------------------------------------------
(* Cookie directives *)

\* the parts of a directive that "; " separates
RECURSIVE parts(_)
parts(d) ==
    LET i == indexOf(d, <<";", " ">>)
    IN  IF i = 0 THEN <<d>>
        ELSE <<SubSeq(d, 1, i - 1)>> \o parts(SubSeq(d, i + 2, Len(d)))

\* the attributes of a directive: its parts after name=value
attributesOf(d) == {parts(d)[i] : i \in 2..Len(parts(d))}

\* the attribute the claim gives an option that is supplied
claimed(options, k) ==
    CASE k = "path" -> <<"P", "a", "t", "h", "=">> \o options[k].v
      [] k = "maxAge" -> <<"M", "a", "x", "-", "A", "g", "e", "=">> \o options[k].v
      [] k = "expires" -> <<"E", "x", "p", "i", "r", "e", "s", "=">> \o options[k].v
      [] k = "httpOnly" -> <<"H", "t", "t", "p", "O", "n", "l", "y">>
      [] k = "secure" -> <<"S", "e", "c", "u", "r", "e">>
      [] k = "sameSite" -> <<"S", "a", "m", "e", "S", "i", "t", "e", "=">> \o options[k].v
      [] k = "domain" -> <<"D", "o", "m", "a", "i", "n", "=">> \o options[k].v

\* the directive the last call on the ResponseHandler pushed
pushed == r.res.cookieHeaders[Len(r.res.cookieHeaders)]

\* C21: setCookie(name, value, options) pushes one directive that starts with
\* name=value (the value URI-encoded) and whose attributes are exactly those
\* of the options supplied; maxAge N gives Max-Age=N for every N >= 0.
C21_SetCookie ==
    ( r.pc = "handler" /\ r.res.last.op = "setCookie" )
    => /\ parts(pushed)[1] =
             r.res.last.args.name \o <<"=">> \o encodeURIComponent(r.res.last.args.value)
       /\ attributesOf(pushed) =
             {claimed(r.res.last.args.options, k) : k \in DOMAIN r.res.last.args.options}

\* C22: deleteCookie(name, options) pushes the directive that
\* setCookie(name, "", {maxAge: 0, path, domain}) pushes (the attributes taken
\* in any order).
C22_DeleteIsSet ==
    ( r.pc = "handler" /\ r.res.last.op = "deleteCookie" )
    => LET name    == r.res.last.args.name
           options == r.res.last.args.options
           same    == setCookieDirective(name, <<>>,
                          [k \in DOMAIN options \cup {"maxAge"} |->
                              IF k = "maxAge" THEN Num(<<"0">>) ELSE options[k]])
       IN  /\ parts(pushed)[1] = parts(same)[1]
           /\ attributesOf(pushed) = attributesOf(same)

----------------------------------------------------------------------------
(* Redirect *)

\* C23: redirect(url, code) sets sent and returns a new Response without a
\* body, whose status is code (302 when code is left out, whatever setStatus
\* was given before) and whose Location header is url, whatever the global
\* headers and the headers set with setHeader are.
C23_Redirect ==
    [][ BuilderCall("redirect") =>
          /\ r'.res.sent
          /\ r'.res.responses = Append(r.res.responses, built)
          /\ built.body = NoBody
          /\ built.status = IF r'.res.last.n = 0 THEN 302 ELSE r'.res.last.n
          /\ "location" \in DOMAIN built.headers
          /\ built.headers["location"] = r'.res.last.args.location
      ]_vars

----------------------------------------------------------------------------
(* Registration *)

\* the step in which a route is registered
Registers == nextHandler' = nextHandler + 1

\* every key is in its table once, with a handler registered before now
TablesWellFormed ==
    \A method \in ValidMethods :
        \A i, j \in 1..Len(registeredMethods[method]) :
            /\ registeredMethods[method][i].handler \in 1..(nextHandler - 1)
            /\ registeredMethods[method][i].key = registeredMethods[method][j].key => i = j

\* C24: registering a (method, pattern) that is registered already is no error
\* and replaces its handler, the key keeping its place and every other key
\* its handler; a route handler that is called is the one its key has in the
\* table then, the one registered last for the key, and none registered for
\* it before.
C24_Overwrite ==
    /\ []TablesWellFormed
    /\ [][ /\ Registers =>
                \E method \in ValidMethods :
                    \E key \in registeredKeys(method)' :
                        /\ lookup(registeredMethods'[method], key) = nextHandler
                        /\ keysOf(registeredMethods'[method]) =
                              IF key \in registeredKeys(method)
                              THEN keysOf(registeredMethods[method])
                              ELSE Append(keysOf(registeredMethods[method]), key)
                        /\ \A m \in ValidMethods :
                              \A k \in registeredKeys(m) :
                                  (m # method \/ k # key) =>
                                      lookup(registeredMethods'[m], k) =
                                          lookup(registeredMethods[m], k)
                        /\ \A m \in ValidMethods \ {method} :
                              registeredMethods'[m] = registeredMethods[m]
           /\ HandlerCalled =>
                \A i \in handlerCalls(r'.log) :
                    /\ r'.log[i].n = lookup(registeredMethods[r'.method], r'.pathKey)
                    /\ r'.log[i].n # 0
         ]_vars

C24_Witness ==
    /\ r.pc = "handler"
    /\ r.method = "GET"
    /\ registeredMethods["GET"] = <<[key |-> <<"/", ":", "a">>, handler |-> 3]>>
    /\ registeredMethods["POST"] = <<>>
    /\ nextHandler = 4
    /\ \E i \in handlerCalls(r.log) : r.log[i].n = 3

----------------------------------------------------------------------------
(* Body decoder *)

\* C25: the body decoder runs for POST, PUT and PATCH requests only and has
\* ended, successfully, when the handler is called; the handler of a POST to
\* "/items/:id" with a JSON content type and body {"q":1} gets the body
\* {q: 1} and the path parameter id of the URL; under a JSON content type the
\* body is the value of the request text, under another the text itself; for
\* every other method the body is the default {}.
C25_BodyDecoded ==
    /\ eventsOf("decodeStart") # {} => r.method \in BodyMethods
    /\ r.pc = "handler" =>
          /\ r.params[<<"i", "d">>] = segments(r.path)[2]
          /\ IF r.method \in BodyMethods
             THEN /\ Len(r.log) = 3
                  /\ r.log[1] = Event("decodeStart", 0, "")
                  /\ r.log[2] = Event("decodeEnd", 0, "ok")
                  /\ r.log[3].ev = "handlerStart"
                  /\ IF isJSONType(r.headers.contentType)
                     THEN JSONstringify(r.body) = r.raw
                     ELSE r.body = Obj(<<"t", "e", "x", "t">>, Str(r.raw))
                  /\ ( /\ isJSONType(r.headers.contentType)
                       /\ r.raw = <<"{", "\"", "q", "\"", ":", "1", "}">> )
                     => r.body = Obj(<<"q">>, Num(<<"1">>))
             ELSE /\ eventsOf("decodeStart") = {}
                  /\ r.body = EmptyObject

C25_Witness ==
    /\ r.pc = "handler"
    /\ r.method = "POST"
    /\ r.pathKey = <<"/", "i", "t", "e", "m", "s", "/", ":", "i", "d">>
    /\ r.headers.contentType = "application/json"
    /\ r.raw = <<"{", "\"", "q", "\"", ":", "1", "}">>
    /\ r.body = Obj(<<"q">>, Num(<<"1">>))
    /\ r.params[<<"i", "d">>] = <<"7">>

\* the body decoder of the request has failed
DecodeFailed == \E i \in eventsOf("decodeEnd") : r.log[i].res = "failed"

\* C26: when decoding the body of a POST, PUT or PATCH request fails, the
\* handler is not called, the body stays unset, and the request is answered
\* with the status-500 JSON error response that carries the error's message,
\* without a call of the error handler; a body that is not JSON under a JSON
\* content type always fails.
C26_DecodeFailure ==
    /\ DecodeFailed =>
          /\ r.pc = "done"
          /\ r.method \in BodyMethods
          /\ handlerCalls(r.log) = {}
          /\ r.body = EmptyObject
          /\ r.caughtBy = "body"
          /\ r.errorCalls = <<>>
          /\ r.result.kind = "json" /\ r.result.status = 500
          /\ r.result.message = decodeError(r.headers).message
          /\ r.result # Result("text", 500, "Internal server error", 0)
    /\ ( /\ eventsOf("decodeStart") # {}
         /\ r.pc \in {"handler", "done"}
         /\ isJSONType(r.headers.contentType)
         /\ ~validJSON(r.raw) )
       => DecodeFailed

C26_Witness ==
    /\ DecodeFailed
    /\ r.method = "POST"
    /\ r.headers.contentType = "application/json"
    /\ r.raw = <<"{", "\"", "q", "\"", ":">>
    /\ r.result.kind = "json" /\ r.result.status = 500
    /\ r.result.message = "JSON Parse error"

----------------------------------------------------------------------------
(* Concurrent requests *)

\* the invocations in flight that have built their request object
Live == {q \in {r, parked} : q.ctx.params # 0}

----------------------------------------------------------------------------
(* Global headers *)

\* the headers of the Response fetch returned: those of the Response the
\* ResponseHandler built last when the handler settled, otherwise those
\* fetch gave the Response it made
returnedHeaders ==
    IF r.result.kind = "handlerResponse" /\ r.res.responses # <<>>
    THEN r.res.responses[Len(r.res.responses)].headers
    ELSE r.result.headers

\* C28: every response fetch returns carries every global header: the
\* responses built with send, the OPTIONS answer, the static-file responses,
\* the body-decode failure responses and the generic failure responses.
C28_GlobalHeaders ==
    ( /\ r.pc = "done"
      /\ \/ r.result.kind \in {"file", "json", "text", "globalHeadersOnly"}
         \/ r.result.kind = "handlerResponse" /\ r.res.responses # <<>> )
    => namesOf(globalHeaders) \subseteq DOMAIN returnedHeaders

----------------------------------------------------------------------------
(* WebSocket messages *)

\* the one frame the payload is to be sent as
frameOf(data) ==
    CASE data.type = "Buffer" -> BinaryFrame(bytesOf(data))
      [] data.type = "string" -> TextFrame(data.v)
      [] OTHER -> TextFrame(JSONstringify(data))

\* C29: a call of send of the wrapper with an object, a string or a Buffer
\* forwards exactly one frame: the JSON text of an object, the string
\* unchanged, and for a Buffer a binary frame of the bytes byteOffset to
\* byteOffset + byteLength of its ArrayBuffer, not a JSON text.
C29_SendFrames ==
    \A i \in 1..Len(socket.sends) :
        socket.sends[i].data.type \in {"object", "string", "Buffer"}
        => socket.sends[i].frames = <<frameOf(socket.sends[i].data)>>

\* C30: with an onMessage hook, every message received has its one call of
\* the hook, in order; the hook gets the value of JSON.parse for a text
\* message that is JSON, whatever the value (0, false, null and "" as well),
\* and the message itself for every other message.
C30_MessageDelivered ==
    webSocket.onMessage =>
        /\ Len(socket.calls) = Len(socket.received)
        /\ \A i \in 1..Len(socket.calls) :
              LET m == socket.received[i]
              IN  /\ socket.calls[i].message = m
                  /\ socket.calls[i].value =
                        IF m.type = "string" /\ validJSON(m.v) THEN JSONparse(m.v) ELSE m

----------------------------------------------------------------------------
(* Cookie header *)

\* a pair with a name, an "=" and a value that decodeURIComponent takes
wellFormed(cookie) ==
    /\ indexOf(cookie, <<"=">>) > 1
    /\ ~malformedURI(SubSeq(cookie, indexOf(cookie, <<"=">>) + 1, Len(cookie)))

\* the mapping of the well-formed pairs, from pair i on
RECURSIVE wellFormedReduce(_, _, _)
wellFormedReduce(pairs, i, acc) ==
    IF i > Len(pairs) THEN acc
    ELSE IF ~wellFormed(pairs[i]) THEN wellFormedReduce(pairs, i + 1, acc)
    ELSE wellFormedReduce(pairs, i + 1,
             put(acc, SubSeq(pairs[i], 1, indexOf(pairs[i], <<"=">>) - 1),
                 decodeURIComponent(SubSeq(pairs[i], indexOf(pairs[i], <<"=">>) + 1,
                                           Len(pairs[i])))))

\* C31: the Cookie header never faults a request, and the cookies of a
\* matched request are the well-formed pairs of the header: a pair without a
\* name, without "=" or with a value that is no percent-encoding is left out
\* and the other pairs are there.
C31_CookiesParsed ==
    ( r.pc # "idle" /\ r.pathKey # NoKey )
    => /\ r.fault.message # "URI malformed"
       /\ r.cookies = wellFormedReduce(cookiePairs(r.headers.cookie), 1, EmptyMap)

----------------------------------------------------------------------------
(* Trailing slash *)

\* a path without its leading and its trailing slash
normalized(s) ==
    LET t == IF s # <<>> /\ s[1] = Slash THEN Tail(s) ELSE s
    IN  IF t # <<>> /\ t[Len(t)] = Slash THEN SubSeq(t, 1, Len(t) - 1) ELSE t

\* the literal keys of the request's method that are the request path up to
\* a leading or trailing slash
literalKeys ==
    {k \in {registeredMethods[r.method][i].key : i \in 1..Len(registeredMethods[r.method])} :
        ~isParamKey(k) /\ ~isWildcardKey(k) /\ normalized(k) = normalized(r.path)}

\* C32: a request whose path is a registered literal pattern up to a
\* trailing slash resolves to that pattern: "/hello/" is matched to "/hello"
\* and faults with no 404.
C32_TrailingSlash ==
    ( r.pc # "idle" /\ literalKeys # {} )
    => /\ r.pathKey \in literalKeys
       /\ r.fault.status # 404

----------------------------------------------------------------------------
(* Attached state *)

\* C33: the data of a connection is the value attached at upgrade for as
\* long as the connection lives: no open, message or close dispatch and no
\* send of the wrapper changes it, and every call of the message hook finds
\* the value attached at upgrade.
C33_AttachedStateFixed ==
    /\ socket.data = socket.attached
    /\ \A i \in 1..Len(socket.calls) : socket.calls[i].data = socket.attached

----------------------------------------------------------------------------
(* Wildcard boundary *)

\* C34: a wildcard template P + "/*" is matched only to a path that is P or
\* starts with P + "/": "/a/*" is not matched to "/ab".
C34_WildcardBoundary ==
    ( r.pc # "idle" /\ isWildcardKey(r.pathKey) )
    => \/ r.path = replace(r.pathKey, <<"/", "*">>, <<>>)
       \/ startsWith(r.path, replace(r.pathKey, <<"/", "*">>, <<>>) \o <<"/">>)

----------------------------------------------------------------------------
(* Upgrade after matcher and guards *)

\* the calls of onUpgrade and of server.upgrade the request has made
upgradeCalls == eventsOf("onUpgrade") \cup eventsOf("upgrade")

\* the guard calls that did not let the request through
guardStops ==
    {i \in eventsOf("guardEnd") : r.log[i].res \in {"false", "Response", "throw"}}

----------------------------------------------------------------------------
(* Static files *)

\* C36: the public directories are looked at first, for GET requests only:
\* while a request is at the file lookup, and when it ends with the file
\* response, no guard, matcher, upgrade, body decoder, handler or error
\* handler has run for it, whatever guards and routes the server has.
C36_StaticFirst ==
    /\ ( r.pc = "static" \/ r.result.kind = "file" ) =>
          /\ r.method = "GET"
          /\ r.dir \in 1..Len(PUBLIC_DIRECTORIES)
          /\ r.log = <<>>
          /\ r.pathKey = NoKey
          /\ r.ctx = NoContext
          /\ r.fault = NoError
          /\ r.errorCalls = <<>>
    /\ r.result.kind = "file" => r.result = Result("file", 200, "file", r.dir)

C36_Witness ==
    /\ r.pc = "done"
    /\ r.result.kind = "file"
    /\ _preRequestHandlers > 0
    /\ getMatchingPathKey(r.method, r.path) # NoKey
    /\ webSocket.enabled

----------------------------------------------------------------------------
(* Query parameters *)

\* the pairs of the query string of the request
queryPairs == SelectSeq(split(r.search, "&"), truthy)

\* the last pair of the query string with the name
lastOf(name) ==
    CHOOSE i \in 1..Len(queryPairs) :
        /\ searchKey(queryPairs[i]) = name
        /\ \A j \in 1..Len(queryPairs) : searchKey(queryPairs[j]) = name => j <= i

====
